---- MODULE Spec2Model ----
(***************************************************************************)
(* lonet / virtnet (go123, xnet/lonet/__init__.py): the per-subnetwork     *)
(* state machine of hosts, sockets, listeners and connections, the port    *)
(* allocator, the dial/accept rendezvous and the close/shutdown paths.     *)
(*                                                                         *)
(* Python objects are modelled as records kept in maps keyed by an id; the *)
(* record fields carry the attribute names of the source.  A Python list   *)
(* is a sequence whose element i+1 is the list's element i.  Strings that  *)
(* are formatted or parsed (addresses) are sequences of characters.        *)
(* The result of a call (what it returns or the cause of the error it      *)
(* raises) is an operator of the state the call is made in (...Res).       *)
(***************************************************************************)
EXTENDS Integers, Sequences, FiniteSets, TLC

\* ---- bounds of the model ----
MaxDial   == 2      \* Host.dial calls made in one behaviour
MaxListen == 1      \* successful Host.listen calls in one behaviour
MaxAcc    == 1      \* threads that call listener.accept
MaxPort   == 1      \* largest port number written in a listen address
LifeDial   == 1     \* the same, in the behaviours that create and close hosts
LifeListen == 1
OrderListen == 2       \* the same, in the behaviours that listen on few addresses

None == <<>>

\* ---- strings ----
DigitChars == <<"0", "1", "2", "3", "4", "5", "6", "7", "8", "9">>

RECURSIVE NatStr(_)
NatStr(n) == IF n < 10 THEN <<DigitChars[n + 1]>>
             ELSE NatStr(n \div 10) \o <<DigitChars[(n % 10) + 1]>>

\* "%d" % n
IntStr(n) == IF n < 0 THEN <<"-">> \o NatStr(0 - n) ELSE NatStr(n)

\* addrstr4: "%s:%d" % (host, port)
addrstr4(host, port) == host \o <<":">> \o IntStr(port)

\* str.split(':')
RECURSIVE Split(_)
Split(s) ==
    IF \E i \in 1..Len(s) : s[i] = ":"
    THEN LET i == CHOOSE i \in 1..Len(s) : s[i] = ":" /\ \A j \in 1..(i - 1) : s[j] # ":"
         IN  <<SubSeq(s, 1, i - 1)>> \o Split(SubSeq(s, i + 1, Len(s)))
    ELSE <<s>>

IsDigit(c) == \E k \in 1..10 : DigitChars[k] = c
DigitVal(c) == (CHOOSE k \in 1..10 : DigitChars[k] = c) - 1

RECURSIVE DigitsVal(_)
DigitsVal(s) == IF Len(s) = 0 THEN 0
                ELSE 10 * DigitsVal(SubSeq(s, 1, Len(s) - 1)) + DigitVal(s[Len(s)])

\* int(s): an optional sign and at least one decimal digit
IntOk(s) ==
    LET body == IF Len(s) > 0 /\ s[1] \in {"-", "+"} THEN Tail(s) ELSE s
    IN  Len(body) > 0 /\ \A i \in 1..Len(body) : IsDigit(body[i])
IntVal(s) ==
    IF Len(s) > 0 /\ s[1] = "-" THEN 0 - DigitsVal(Tail(s))
    ELSE IF Len(s) > 0 /\ s[1] = "+" THEN DigitsVal(Tail(s))
    ELSE DigitsVal(s)

\* ---- Addr ----
Addr(net, host, port) == [ok |-> TRUE, net |-> net, host |-> host, port |-> port]
BadAddr == [ok |-> FALSE, net |-> <<>>, host |-> <<>>, port |-> 0]

\* Addr.__str__
AddrStr(a) == addrstr4(a.host, a.port)

\* Addr.parse: ValueError (BadAddr) unless exactly "<host>:<int>"
AddrParse(net, addr) ==
    LET addrv == Split(addr)
    IN  IF Len(addrv) # 2 THEN BadAddr
        ELSE IF ~IntOk(addrv[2]) THEN BadAddr
        ELSE Addr(net, addrv[1], IntVal(addrv[2]))

\* Host._parseAddr: an empty host means the host itself
HostParseAddr(net, hname, addr) ==
    LET a == AddrParse(net, addr)
    IN  IF a.ok /\ a.host = <<>> THEN [a EXCEPT !.host = hname] ELSE a

\* ---- Python lists ----
PyAt(v, i)     == v[i + 1]
PySet(v, i, x) == [v EXCEPT ![i + 1] = x]
\* v[i] for a possibly negative i: the index it denotes, -1 when IndexError
PyIndex(v, i)  == IF i >= 0 THEN (IF i < Len(v) THEN i ELSE 0 - 1)
                  ELSE (IF Len(v) + i >= 0 THEN Len(v) + i ELSE 0 - 1)
\* while port >= len(v): v.append(None)
Extend(v, port) == IF port >= Len(v)
                   THEN v \o [k \in 1..(port + 1 - Len(v)) |-> None]
                   ELSE v

\* ---- the names used ----
Network   == <<"n">>
HostNames == {<<"a">>, <<"b">>}
NoHostName == <<"c">>          \* a name no new_host is ever called with
OsAddr     == <<"self">>       \* the address of this subnetwork's real listener
PeerOsAddr == <<"peer">>       \* the address of another subnetwork's real listener

VARIABLES
    net,        \* VirtSubNetwork: _nopenhosts, _autoclose, _down; _SubNetwork: _oslistener;
                \* pc, withHosts: where the task that runs __shutdown stands;
                \* task: "serve" when that task is the serve thread
    hosts,      \* _hostmap: host name -> Host (_socketv, _down, _close_once)
    registry,   \* the registry: the database file (hosts: host name -> osladdr, meta:
                \* name -> value), this subnetwork's DBPool (closed: _factory is None,
                \* _connv, the connections made, those in use, the gets and the close
                \* in progress) and the SQLiteRegistry constructions in progress
    newhosts,   \* new_host calls that have announced and not yet inserted
    sockets,    \* socket objects: id -> (_host, _port, _conn, _listener, conn)
    listeners,  \* listener objects: id -> (_socket, _down, _close_once)
    conns,      \* conn objects: id -> (_socket, _peerAddr, _down, _close_once)
    netsk,      \* real streams, one per dial d: its dialer end and its acceptor end
    dials,      \* Host.dial calls: d -> (host, dst, pc)
    handlers,   \* inbound handlers (_loaccept tasks), one per stream d
    accepts,    \* listener.accept calls: thread -> (pc, l, req)
    purges,     \* purgesk tasks started by accept, by the request d they drain
    hist        \* history: the order of dialq rendezvous and of accept returns, per
                \* host the port of the last accepted socket since a slot was freed,
                \* the calls in progress that started after their down had fired,
                \* the operations made with a lock held, the requests
                \* that _vnet_accept gave up on a dialq, and the pool
                \* connections opened after the pool was closed

vars == <<net, hosts, registry, newhosts, sockets, listeners, conns,
          netsk, dials, handlers, accepts, purges, hist>>

tasks == <<netsk, dials, handlers, accepts, purges>>

hostmap == DOMAIN hosts

\* f with key k (new or old) bound to x
MapPut(f, k, x) == [y \in DOMAIN f \cup {k} |-> IF y = k THEN x ELSE f[y]]
\* f without key k
MapDel(f, k) == [y \in DOMAIN f \ {k} |-> f[y]]

\* a set_once that reports every call as the first
SetOnceAgain(event) == TRUE

\* set_once(event): whether this call is the one that sets the event
SetOnce(event) == ~event

\* an accept thread that is not inside listener.accept
IdleAccept == [pc |-> "idle", l |-> None, req |-> 0]

\* socket.__init__
NewSocket(h, port) ==
    [_host |-> h, _port |-> port, _conn |-> None, _listener |-> None, conn |-> None]

\* a socket that never counts as empty
NeverEmpty(sk) == FALSE

\* socket._empty
SockEmpty(sk) == sk._conn = None /\ sk._listener = None

\* ---- Host._allocFreeSocket ----
\* a scan that stops where it starts
ScanNothing(v, port) == port

RECURSIVE ScanFree(_, _)
ScanFree(v, port) ==
    IF port < Len(v)
    THEN IF PyAt(v, port) = None THEN port ELSE ScanFree(v, port + 1)
    ELSE port

\* an allocator whose scan starts at index 0
AllocFromZero(v) == ScanFree(v, 0)

AllocFreePort(v) == ScanFree(v, 1)

\* the table after the socket with id sk was installed at the port found
AllocFreeSocket(v, sk) ==
    LET port == AllocFreePort(v)
    IN  PySet(Extend(v, port), port, sk)

\* a release that leaves the table as it is
ReleaseNothing(v, port) == v

\* h._socketv[port] = None
ReleaseSlot(v, port) == PySet(v, PyIndex(v, port), None)

\* ---- the registry as join leaves it ----
schema_ver == <<"lonet.1">>

\* meta after the first _setup for network
MetaOf(network) == [name \in {"schemaver", "network"} |->
                       IF name = "schemaver" THEN schema_ver ELSE network]

\* the database with the given tables; the pool holds the connection _setup used
RegistryOf(hosttab, metatab) ==
    [hosts |-> hosttab, meta |-> metatab, closed |-> FALSE,
     _connv |-> <<1>>, dbconns |-> <<"open">>, used |-> {}, opening |-> 0,
     closing |-> {}, poolpc |-> "", opens |-> <<>>]

\* ---- the history ----
NoHist == [rdv |-> <<>>, ret |-> <<>>, lastacc |-> [h \in HostNames |-> 0], late |-> {},
           locked |-> {}, refused |-> {}, raced |-> {}]

\* a slot of host h that held a socket is null after the step
Freed(h) ==
    \E i \in 1..Len(hosts[h]._socketv) :
        hosts[h]._socketv[i] # None /\ hosts'[h]._socketv[i] = None

\* the history after a step that accepts nothing
HistKeep ==
    hist' = [hist EXCEPT !.lastacc = [h \in HostNames |->
                                        IF h \in hostmap /\ Freed(h) THEN 0 ELSE @[h]]]

\* the history after a step that accepts nothing and in which call x returns
HistReturn(x) ==
    hist' = [hist EXCEPT !.lastacc = [h \in HostNames |->
                                        IF h \in hostmap /\ Freed(h) THEN 0 ELSE @[h]],
                         !.late = @ \ {x}]

Init ==
    /\ net = [_nopenhosts |-> 0, _autoclose |-> FALSE, _down |-> FALSE,
              _oslistener |-> "open", pc |-> "", withHosts |-> FALSE, task |-> ""]
    /\ hosts = << >>
    /\ registry = RegistryOf(<< >>, MetaOf(Network))
    /\ newhosts = {}
    /\ sockets = << >>
    /\ listeners = << >>
    /\ conns = << >>
    /\ netsk = << >>
    /\ dials = << >>
    /\ handlers = << >>
    /\ accepts = [t \in 1..MaxAcc |-> IdleAccept]
    /\ purges = {}
    /\ hist = NoHist

\* ---- SQLiteRegistry ----
\* the handles on the registry: the one of this subnetwork, and the one of
\* another subnetwork that shares the database
Handles == {"self", "peer"}

\* DBPool.get on handle k raises ("sqlite: pool: get on closed pool")
PoolClosed(k) == k = "self" /\ registry.closed

\* an announce that never finds the host registered
RegistryAnnounceNoDup(k, hostname) ==
    IF k = "self" /\ registry.closed THEN "RuntimeError" ELSE "ok"

\* an announce that replaces the row of a registered host
RegistryAnnounceReplace(k, hostname, osladdr) ==
    IF k = "self" /\ registry.closed THEN registry.hosts
    ELSE [y \in DOMAIN registry.hosts \cup {hostname} |->
              IF y = hostname THEN osladdr ELSE registry.hosts[y]]

\* query(hostname) on handle k: the osladdr stored, None, or RegistryError
RegistryQuery(k, hostname) ==
    IF PoolClosed(k) THEN <<"RegistryError">>
    ELSE IF hostname \in DOMAIN registry.hosts THEN registry.hosts[hostname]
    ELSE None

\* announce(hostname, osladdr) on handle k: "ok", or the error RegistryError carries
RegistryAnnounceRes(k, hostname) ==
    IF PoolClosed(k) THEN "RuntimeError"
    ELSE IF hostname \in DOMAIN registry.hosts THEN "ErrHostDup"
    ELSE "ok"

\* the hosts table after announce(hostname, osladdr) on handle k
RegistryAnnounce(k, hostname, osladdr) ==
    IF RegistryAnnounceRes(k, hostname) = "ok"
    THEN MapPut(registry.hosts, hostname, osladdr)
    ELSE registry.hosts

\* new_host of another subnetwork of the network: its announce
PeerAnnounce(name) ==
    /\ registry' = [registry EXCEPT !.hosts = RegistryAnnounce("peer", name, PeerOsAddr)]
    /\ UNCHANGED <<net, hosts, newhosts, sockets, listeners, conns>>
    /\ UNCHANGED tasks
    /\ UNCHANGED hist

\* ---- DBPool ----
\* the connections the pool can make in one behaviour
MaxConn == 3

\* the connections of the free list
FreeConns == {registry._connv[i] : i \in 1..Len(registry._connv)}

\* a close that leaves every connection open
CloseConnsNone(dbc, C) == dbc

\* the connection table dbc after conn.close() for every conn of C
CloseConns(dbc, C) == [c \in DOMAIN dbc |-> IF c \in C THEN "closed" ELSE dbc[c]]

\* get, under the lock: what it raises ("ok": a connection will be returned)
PoolGetRes == IF registry.closed THEN "RuntimeError" ELSE "ok"

\* get, under the lock: a free connection is popped, or the factory is taken
\* to be called after the lock is released
PoolGet ==
    /\ Len(registry.dbconns) + registry.opening < MaxConn \/ Len(registry._connv) > 0
    /\ registry' =
           IF PoolGetRes # "ok" THEN registry
           ELSE IF Len(registry._connv) > 0
           THEN [registry EXCEPT !._connv = SubSeq(@, 1, Len(@) - 1),
                                 !.used = @ \cup {registry._connv[Len(registry._connv)]}]
           ELSE [registry EXCEPT !.opening = @ + 1]
    /\ UNCHANGED <<net, hosts, newhosts, sockets, listeners, conns>>
    /\ UNCHANGED tasks
    /\ UNCHANGED hist

\* get, after the lock: factory() opens a new connection
PoolGetNew ==
    /\ registry.opening > 0
    /\ registry' = [registry EXCEPT !.opening = @ - 1,
                                     !.dbconns = Append(@, "open"),
                                     !.used = @ \cup {Len(registry.dbconns) + 1}]
    /\ UNCHANGED <<net, hosts, newhosts, sockets, listeners, conns>>
    /\ UNCHANGED tasks
    /\ hist' = [hist EXCEPT !.raced = IF registry.closed
                                       THEN @ \cup {Len(registry.dbconns) + 1} ELSE @]

\* a put that stores the connection whatever the state of the pool
PoolPutAlways(c) == Append(registry._connv, c)

\* put: the free list after it
PoolPutConnv(c) == IF ~registry.closed THEN Append(registry._connv, c) ELSE registry._connv

\* put(conn): the connection goes to the free list, or is closed when the pool is
PoolPut(c) ==
    /\ c \in registry.used
    /\ registry' = [registry EXCEPT !.used = @ \ {c},
                                     !._connv = PoolPutConnv(c),
                                     !.dbconns = IF ~registry.closed THEN @
                                                 ELSE CloseConns(@, {c})]
    /\ UNCHANGED <<net, hosts, newhosts, sockets, listeners, conns>>
    /\ UNCHANGED tasks
    /\ UNCHANGED hist

\* close, under the lock: the factory is dropped and the free list taken away
PoolClose ==
    /\ registry.poolpc = ""
    /\ registry' = [registry EXCEPT !.closed = TRUE, !._connv = <<>>,
                                     !.closing = FreeConns, !.poolpc = "closing"]
    /\ UNCHANGED <<net, hosts, newhosts, sockets, listeners, conns>>
    /\ UNCHANGED tasks
    /\ UNCHANGED hist

\* close, after the lock: the connections taken away are closed, close returns
PoolCloseConns ==
    /\ registry.poolpc = "closing"
    /\ registry' = [registry EXCEPT !.dbconns = CloseConns(@, registry.closing),
                                     !.closing = {}, !.poolpc = ""]
    /\ UNCHANGED <<net, hosts, newhosts, sockets, listeners, conns>>
    /\ UNCHANGED tasks
    /\ UNCHANGED hist

\* ---- SQLiteRegistry.__init__ / _setup, by any process that opens the database ----
\* the constructions made in one behaviour, and the network names they are for
MaxOpen == 2
OpenNames == {<<>>, Network, <<"m">>}

\* _config(conn, name): "" when there is no row
Config(name) == IF name \in DOMAIN registry.meta THEN registry.meta[name] ELSE <<>>

\* _setup on the network row read: it is to be written, or what _setup returns
SetupNetworkRes(network) ==
    IF Config("network") = <<>> THEN "write"
    ELSE IF Config("network") # network THEN "network name mismatch"
    ELSE "ok"

\* the constructor is called: the tables are created if they do not exist
OpenBegin(network) ==
    /\ Len(registry.opens) < MaxOpen
    /\ registry' = [registry EXCEPT !.opens = Append(@, [network |-> network, pc |-> "schemaver"])]
    /\ UNCHANGED <<net, hosts, newhosts, sockets, listeners, conns>>
    /\ UNCHANGED tasks
    /\ UNCHANGED hist

\* schemaver is read, and written when there is none
OpenSchemaver(o) ==
    /\ o \in DOMAIN registry.opens
    /\ registry.opens[o].pc = "schemaver"
    /\ registry' = [registry EXCEPT
           !.meta = IF Config("schemaver") = <<>> THEN MapPut(@, "schemaver", schema_ver) ELSE @,
           !.opens[o].pc = IF Config("schemaver") \in {<<>>, schema_ver}
                           THEN "network" ELSE "AttributeError"]
    /\ UNCHANGED <<net, hosts, newhosts, sockets, listeners, conns>>
    /\ UNCHANGED tasks
    /\ UNCHANGED hist

\* network is read and compared
OpenNetwork(o) ==
    /\ o \in DOMAIN registry.opens
    /\ registry.opens[o].pc = "network"
    /\ registry' = [registry EXCEPT !.opens[o].pc = SetupNetworkRes(registry.opens[o].network)]
    /\ UNCHANGED <<net, hosts, newhosts, sockets, listeners, conns>>
    /\ UNCHANGED tasks
    /\ UNCHANGED hist

\* network was absent: it is written (INSERT OR REPLACE), in a statement of its own
OpenSetNetwork(o) ==
    /\ o \in DOMAIN registry.opens
    /\ registry.opens[o].pc = "write"
    /\ registry' = [registry EXCEPT !.meta = MapPut(@, "network", registry.opens[o].network),
                                     !.opens[o].pc = "ok"]
    /\ UNCHANGED <<net, hosts, newhosts, sockets, listeners, conns>>
    /\ UNCHANGED tasks
    /\ UNCHANGED hist

\* ---- VirtSubNetwork.new_host ----
\* _vnet_newhost: what it raises; the address of the real listener is taken first
AnnounceRes(name) ==
    IF net._oslistener = "closed" THEN "socket.error"
    ELSE RegistryAnnounceRes("self", name)

\* first half: _vnet_newhost -> registry.announce
NewHostAnnounce(name) ==
    /\ name \notin newhosts
    /\ IF AnnounceRes(name) = "ok"
       THEN /\ registry' = [registry EXCEPT !.hosts = RegistryAnnounce("self", name, OsAddr)]
            /\ newhosts' = newhosts \cup {name}
       ELSE UNCHANGED <<registry, newhosts>>
    /\ UNCHANGED <<net, hosts, sockets, listeners, conns>>
    /\ UNCHANGED tasks
    /\ UNCHANGED hist

\* second half, under _hostmu: the Host is created and counted
NewHostInsert(name) ==
    /\ name \in newhosts
    /\ name \notin hostmap      \* otherwise panic("announced ok but .hostMap already !empty")
    /\ newhosts' = newhosts \ {name}
    /\ hosts' = MapPut(hosts, name, [_socketv |-> <<>>, _down |-> FALSE, _close_once |-> FALSE])
    /\ net' = [net EXCEPT !._nopenhosts = @ + 1]
    /\ UNCHANGED <<registry, sockets, listeners, conns>>
    /\ UNCHANGED tasks
    /\ UNCHANGED hist

\* ---- shutdown workers ----
\* the sockets in host h's table
HostSockets(h) == {PyAt(hosts[h]._socketv, i) : i \in 0..(Len(hosts[h]._socketv) - 1)} \ {None}

\* Host._shutdown visits `sk._conn` and `sk._listener` of every socket of the table
HostConnRefs(h)     == {sockets[s]._conn : s \in HostSockets(h)} \ {None}
HostListenerRefs(h) == {sockets[s]._listener : s \in HostSockets(h)} \ {None}

\* conn._shutdown on every conn of C: fire _down, close _netsk
ShutConns(cs, C) == [c \in DOMAIN cs |-> IF c \in C THEN [cs[c] EXCEPT !._down = TRUE] ELSE cs[c]]
ShutNetsk(ns, C) ==
    [d \in DOMAIN ns |->
        [dial |-> IF <<"d", d>> \in C THEN "closed" ELSE ns[d].dial,
         acc  |-> IF <<"a", d>> \in C THEN "closed" ELSE ns[d].acc]]

\* listener._shutdown on every listener of L: fire _down
ShutListeners(ls, L) == [l \in DOMAIN ls |-> IF l \in L THEN [ls[l] EXCEPT !._down = TRUE] ELSE ls[l]]

\* the hosts of H whose _down_once is not yet set: Host._shutdown acts on these
HostsToShut(H) == {h \in H : ~hosts[h]._down}

\* Host._shutdown called with the locks of outer held: the operations it makes
\* on the conns C and the listeners L inside "with h._sockmu"
ShutUnderLocks(outer, C, L) ==
    {<<k, op>> : k \in outer \cup {"_sockmu"},
                 op \in (IF \E c \in C \cap DOMAIN conns : ~conns[c]._down
                         THEN {"conn._down.close", "conn._netsk.close"} ELSE {})
                        \cup (IF \E l \in L \cap DOMAIN listeners : ~listeners[l]._down
                              THEN {"listener._down.close"} ELSE {})}

\* Host._excDown
HostExcDown == IF net._down THEN "ErrNetDown" ELSE "ErrHostDown"

\* ---- Host.listen ----
\* the address listen works with
ListenAddr(h, laddr) == HostParseAddr(Network, h, IF laddr = <<>> THEN <<":", "0">> ELSE laddr)

\* what listen returns ("ok": a listener) or the cause of the error it raises
\* a listen that takes every slot for free
ListenResNoUsed(h, laddr) ==
    IF ~ListenAddr(h, laddr).ok THEN "ValueError"
    ELSE IF ListenAddr(h, laddr).host # h THEN "ErrAddrNoListen"
    ELSE IF hosts[h]._down THEN HostExcDown
    ELSE "ok"

ListenRes(h, laddr) ==
    LET a == ListenAddr(h, laddr)
        v == hosts[h]._socketv
    IN  IF ~a.ok THEN "ValueError"
        ELSE IF a.host # h THEN "ErrAddrNoListen"
        ELSE IF hosts[h]._down THEN HostExcDown
        ELSE IF a.port = 0 THEN "ok"
        ELSE IF PyIndex(Extend(v, a.port), a.port) < 0 THEN "IndexError"
        ELSE IF PyAt(Extend(v, a.port), PyIndex(Extend(v, a.port), a.port)) # None
        THEN "ErrAddrAlreadyUsed"
        ELSE "ok"

Listen(h, laddr, max) ==
    /\ h \in hostmap
    /\ Cardinality(DOMAIN listeners) < max
    /\ LET a   == ListenAddr(h, laddr)
           v   == hosts[h]._socketv
           lid == <<"l", Cardinality(DOMAIN listeners) + 1>>
           install(port, v1) ==
               /\ sockets' = MapPut(sockets, lid, [NewSocket(h, port) EXCEPT !._listener = lid])
               /\ listeners' = MapPut(listeners, lid,
                                      [_socket |-> lid, _down |-> FALSE, _close_once |-> FALSE])
               /\ hosts' = [hosts EXCEPT ![h]._socketv = v1]
       IN  IF ListenRes(h, laddr) = "ok"
           THEN IF a.port = 0
                THEN install(AllocFreePort(v), AllocFreeSocket(v, lid))
                ELSE install(a.port, PySet(Extend(v, a.port),
                                           PyIndex(Extend(v, a.port), a.port), lid))
           ELSE \* the table stays extended when the error is raised under _sockmu
                /\ hosts' = [hosts EXCEPT ![h]._socketv =
                                IF a.ok /\ a.host = h /\ ~hosts[h]._down
                                THEN Extend(v, a.port) ELSE v]
                /\ UNCHANGED <<sockets, listeners>>
    /\ UNCHANGED <<net, registry, newhosts, conns>>
    /\ UNCHANGED tasks
    /\ UNCHANGED hist

\* ---- listener.close ----
\* what close returns ("ok") or raises
ListenerCloseRes(l) ==
    LET sk == sockets[listeners[l]._socket]
    IN  IF listeners[l]._close_once THEN "ok"
        ELSE IF ~SockEmpty([sk EXCEPT !._listener = None]) THEN "ok"
        \* h._socketv[sk.port] = None: a socket has _port, and no port
        ELSE IF "port" \in DOMAIN sk THEN "ok"
        ELSE "AttributeError"

ListenerClose(l) ==
    /\ l \in DOMAIN listeners
    /\ LET sk == listeners[l]._socket
           h  == sockets[sk]._host
       IN  IF listeners[l]._close_once
           THEN \* _shutdown finds _down_once set; set_once(_close_once) is False
                UNCHANGED <<listeners, sockets, hosts>>
           ELSE /\ listeners' = [listeners EXCEPT ![l]._down = TRUE, ![l]._close_once = TRUE]
                /\ sockets' = [sockets EXCEPT ![sk]._listener = None]
                /\ IF SockEmpty(sockets'[sk]) /\ "port" \in DOMAIN sockets[sk]
                   THEN hosts' = [hosts EXCEPT ![h]._socketv = ReleaseSlot(@, sockets[sk].port)]
                   ELSE UNCHANGED hosts
    /\ UNCHANGED <<net, registry, newhosts, conns>>
    /\ UNCHANGED tasks
    /\ HistKeep

\* ---- conn.close ----
ConnClose(c) ==
    /\ c \in DOMAIN conns
    /\ LET sk == conns[c]._socket
           h  == sockets[sk]._host
       IN  /\ netsk' = ShutNetsk(netsk, {c})
           /\ conns' = [conns EXCEPT ![c]._down = TRUE, ![c]._close_once = TRUE]
           /\ IF SetOnce(conns[c]._close_once)
              THEN /\ sockets' = [sockets EXCEPT ![sk]._conn = None]
                   /\ IF SockEmpty(sockets'[sk])
                      THEN hosts' = [hosts EXCEPT ![h]._socketv = ReleaseSlot(@, sockets[sk]._port)]
                      ELSE UNCHANGED hosts
              ELSE UNCHANGED <<sockets, hosts>>
    /\ UNCHANGED <<net, registry, newhosts, listeners>>
    /\ UNCHANGED <<dials, handlers, accepts, purges>>
    /\ HistKeep

\* ---- VirtSubNetwork.__shutdown, with the adapter's _vnet_close ----
\* a shutdown that goes to _vnet_close without the hosts
ShutdownBeginNoHosts(withHosts) == [net EXCEPT !._down = TRUE, !.pc = "vnet", !.withHosts = withHosts]

\* set_once(n._down_once) has succeeded: n._down fires, the task goes on
ShutdownBegin(withHosts) == [net EXCEPT !._down = TRUE, !.pc = "hosts", !.withHosts = withHosts]

\* under _hostmu: host._shutdown() for every host of _hostmap (when withHosts)
ShutdownHosts ==
    /\ net.pc = "hosts"
    /\ LET H == IF net.withHosts THEN HostsToShut(hostmap) ELSE {}
           C == UNION {HostConnRefs(h) : h \in H}
           L == UNION {HostListenerRefs(h) : h \in H}
       IN  /\ hosts' = [h \in hostmap |-> IF h \in H THEN [hosts[h] EXCEPT !._down = TRUE] ELSE hosts[h]]
           /\ conns' = ShutConns(conns, C)
           /\ netsk' = ShutNetsk(netsk, C)
           /\ listeners' = ShutListeners(listeners, L)
    /\ net' = [net EXCEPT !.pc = "vnet"]
    /\ UNCHANGED <<registry, newhosts, sockets, dials, handlers, accepts, purges>>
    /\ hist' = [hist EXCEPT !.locked = @ \cup
                   (IF net.withHosts
                    THEN ShutUnderLocks({"_hostmu"},
                             UNION {HostConnRefs(h) : h \in HostsToShut(hostmap)},
                             UNION {HostListenerRefs(h) : h \in HostsToShut(hostmap)})
                         \cup {<<"_hostmu", "host._down.close">> : h \in HostsToShut(hostmap)}
                    ELSE {})]

\* _tserve.join() in _vnet_close: where __shutdown goes on; a thread that joins
\* itself gets RuntimeError, which ends __shutdown
JoinServeRes(task) == IF task = "serve" THEN "" ELSE "registry"

\* _vnet_close: the real listener is closed, the serve task (which polls _down) joined
ShutdownVnetClose ==
    /\ net.pc = "vnet"
    /\ net' = [net EXCEPT !._oslistener = "closed", !.pc = JoinServeRes(net.task)]
    /\ UNCHANGED <<hosts, registry, newhosts, sockets, listeners, conns>>
    /\ UNCHANGED tasks
    /\ UNCHANGED hist

\* n._registry.close(), and __shutdown returns
ShutdownRegistryClose ==
    /\ net.pc = "registry"
    /\ net' = [net EXCEPT !.pc = ""]
    /\ registry' = [registry EXCEPT !.closed = TRUE, !._connv = <<>>,
                                     !.dbconns = CloseConns(@, FreeConns)]
    /\ UNCHANGED <<hosts, newhosts, sockets, listeners, conns>>
    /\ UNCHANGED tasks
    /\ UNCHANGED hist

\* ---- VirtSubNetwork.close ----
\* close up to set_once(n._down_once): a close that finds it set returns at once
SubnetClose ==
    /\ net' = IF SetOnce(net._down) THEN ShutdownBegin(TRUE) ELSE net
    /\ UNCHANGED <<hosts, registry, newhosts, sockets, listeners, conns>>
    /\ UNCHANGED tasks
    /\ UNCHANGED hist

\* ---- _SubNetwork._serve ----
\* accept on the real listener raises an error that is not the timeout:
\* _vnet_down(e) runs __shutdown in the serve thread
ServeError ==
    /\ net' = IF SetOnce(net._down) THEN [ShutdownBegin(TRUE) EXCEPT !.task = "serve"] ELSE net
    /\ UNCHANGED <<hosts, registry, newhosts, sockets, listeners, conns>>
    /\ UNCHANGED tasks
    /\ UNCHANGED hist

\* ---- VirtSubNetwork.autoclose ----
\* what autoclose returns ("ok") or raises: it reads n._nopenHosts
AutocloseRes ==
    IF "_nopenHosts" \notin DOMAIN net THEN "AttributeError"
    ELSE IF net._nopenHosts = 0 THEN "panic"
    ELSE "ok"

Autoclose ==
    /\ net' = IF AutocloseRes = "ok" THEN [net EXCEPT !._autoclose = TRUE] ELSE net
    /\ UNCHANGED <<hosts, registry, newhosts, sockets, listeners, conns>>
    /\ UNCHANGED tasks
    /\ UNCHANGED hist

\* ---- Host.close ----
\* what close returns ("ok") or raises
HostCloseRes(h) ==
    IF hosts[h]._close_once THEN "ok"
    \* n._nopenHosts -= 1: the subnet has _nopenhosts, and no _nopenHosts, so the
    \* statement raises and the rest of the deferred function is not run
    ELSE IF "_nopenHosts" \in DOMAIN net THEN "ok"
    ELSE "AttributeError"

HostClose(h) ==
    /\ h \in hostmap
    /\ LET H == HostsToShut({h})
           C == UNION {HostConnRefs(g) : g \in H}
           L == UNION {HostListenerRefs(g) : g \in H}
       IN  /\ hosts' = [hosts EXCEPT ![h]._down = TRUE, ![h]._close_once = TRUE]
           /\ conns' = ShutConns(conns, C)
           /\ netsk' = ShutNetsk(netsk, C)
           /\ listeners' = ShutListeners(listeners, L)
    /\ IF ~hosts[h]._close_once /\ "_nopenHosts" \in DOMAIN net
       THEN \* the decrement, and _closeWithoutHosts for the last host under autoclose
            net' = IF net._autoclose /\ net._nopenHosts = 1 /\ ~net._down
                   THEN [ShutdownBegin(FALSE) EXCEPT !._nopenHosts = @ - 1]
                   ELSE [net EXCEPT !._nopenHosts = @ - 1]
       ELSE UNCHANGED net
    /\ UNCHANGED <<registry, newhosts, sockets>>
    /\ UNCHANGED <<dials, handlers, accepts, purges>>
    /\ hist' = [hist EXCEPT !.locked = @ \cup
                   ShutUnderLocks({}, UNION {HostConnRefs(g) : g \in HostsToShut({h})},
                                  UNION {HostListenerRefs(g) : g \in HostsToShut({h})})]

\* ---- Host.dial ----
NoReply == [verb |-> "", arg |-> <<>>]
\* the stream was closed by the other end with no line on it: skreadline gets EOF
EOFReply == [verb |-> "EOF", arg |-> <<>>]

\* an address that leaves the port of the socket out
SockAddrNoPort(sk) == Addr(Network, sockets[sk]._host, 0)

\* socket.addr
SockAddr(sk) == Addr(Network, sockets[sk]._host, sockets[sk]._port)

\* dial, up to the parse of addr: the source socket is reserved under _sockmu
DialBegin(h, addr, max) ==
    /\ h \in hostmap
    /\ Len(dials) < max
    /\ LET d  == Len(dials) + 1
           sk == <<"d", d>>
           v  == hosts[h]._socketv
       IN  /\ sockets' = MapPut(sockets, sk, NewSocket(h, AllocFreePort(v)))
           /\ hosts' = [hosts EXCEPT ![h]._socketv = AllocFreeSocket(v, sk)]
           /\ dials' = Append(dials, [host |-> h, dst |-> HostParseAddr(Network, h, addr),
                                      pc |-> "query"])
    /\ UNCHANGED <<net, registry, newhosts, listeners, conns>>
    /\ UNCHANGED <<netsk, handlers, accepts, purges>>
    /\ hist' = [hist EXCEPT !.late = IF hosts[h]._down
                                      THEN @ \cup {<<"d", Len(dials) + 1>>} ELSE @]

\* a dial that has returned
DialDone == [host |-> <<>>, dst |-> BadAddr, pc |-> "done"]

\* the except branch of dial: the reserved slot is released, the error raised
\* (the socket object is then referenced by nobody)
DialFail(d) ==
    LET sk == <<"d", d>>
        h  == dials[d].host
    IN  /\ hosts' = [hosts EXCEPT ![h]._socketv = ReleaseSlot(@, sockets[sk]._port)]
        /\ sockets' = MapDel(sockets, sk)
        /\ dials' = [dials EXCEPT ![d] = DialDone]

\* a handler that has returned: res is "ok" or the error raised, r the reply it wrote
HandlerDone(res, r) ==
    [pc |-> "done", network |-> <<>>, src |-> <<>>, dst |-> <<>>, from |-> BadAddr,
     l |-> None, reply |-> r, ack |-> "", res |-> res]

\* the handler of a stream connected to another subnetwork, which has no listener:
\* it replies connection refused
PeerHandler == HandlerDone("ErrConnRefused", [verb |-> "E", arg |-> <<"connection refused">>])

\* what registry.query and _vnet_dial's connect raise ("ok": the dial line is sent)
DialQueryRes(d) ==
    LET dst == dials[d].dst
    IN  IF ~dst.ok THEN "ValueError"
        ELSE IF RegistryQuery("self", dst.host) = <<"RegistryError">> THEN "RegistryError"
        ELSE IF RegistryQuery("self", dst.host) = None THEN "ErrNoHost"
        ELSE IF RegistryQuery("self", dst.host) = OsAddr /\ net._oslistener = "closed"
        THEN "socket.error"
        ELSE "ok"

\* registry.query, then _vnet_dial up to the dial line sent by __loconnect
DialQuery(d) ==
    /\ d \in DOMAIN dials
    /\ dials[d].pc = "query"
    /\ IF DialQueryRes(d) # "ok"
       THEN DialFail(d) /\ UNCHANGED <<netsk, handlers>>
       ELSE /\ netsk' = MapPut(netsk, d,
                   [dial |-> "open",
                    acc  |-> IF RegistryQuery("self", dials[d].dst.host) = OsAddr
                             THEN "open" ELSE "closed"])
            /\ handlers' = MapPut(handlers, d,
                   IF RegistryQuery("self", dials[d].dst.host) = OsAddr
                   THEN [pc |-> "line", network |-> Network,
                         src |-> AddrStr(SockAddr(<<"d", d>>)), dst |-> AddrStr(dials[d].dst),
                         from |-> BadAddr, l |-> None, reply |-> NoReply,
                         ack |-> "", res |-> ""]
                   ELSE PeerHandler)
            /\ dials' = [dials EXCEPT ![d].pc = "wait"]
            /\ UNCHANGED <<hosts, sockets>>
    /\ UNCHANGED <<net, registry, newhosts, listeners, conns>>
    /\ UNCHANGED <<accepts, purges>>
    /\ IF DialQueryRes(d) # "ok" THEN HistReturn(<<"d", d>>) ELSE HistKeep

\* __loconnect on an E reply: the error raised for its argument
LoconnectErr(arg) == IF arg = <<"connection refused">> THEN "ErrConnRefused" ELSE "Error"

\* __loconnect on reply line r of a dial to dst: "ok" or the cause of the error
LoconnectRes(r, dst) ==
    LET acceptAddr == AddrParse(Network, r.arg)
    IN  IF r.verb = "EOF" THEN "Error"
        ELSE IF r.verb = "E" THEN LoconnectErr(r.arg)
        ELSE IF r.verb # "connected" THEN "protocolError"
        ELSE IF ~acceptAddr.ok THEN "protocolError"
        ELSE IF acceptAddr.host # dst.host THEN "protocolError"
        ELSE "ok"

\* what a dial that waits for the reply line returns ("ok": a conn) or raises
DialFinishRes(d) == LoconnectRes(handlers[d].reply, dials[d].dst)

\* __loconnect on the reply line, then the rest of dial
DialFinish(d) ==
    /\ d \in DOMAIN dials
    /\ dials[d].pc = "wait"
    /\ handlers[d].reply # NoReply
    /\ LET r   == handlers[d].reply
           sk  == <<"d", d>>
       IN  IF DialFinishRes(d) # "ok"
           THEN \* _loconnect closes osconn on error
                /\ DialFail(d)
                /\ netsk' = [netsk EXCEPT ![d].dial = "closed"]
                /\ UNCHANGED conns
           ELSE /\ conns' = MapPut(conns, sk, [_socket |-> sk,
                                               _peerAddr |-> AddrParse(Network, r.arg),
                                               _down |-> FALSE, _close_once |-> FALSE])
                /\ sockets' = [sockets EXCEPT ![sk]._conn = sk]
                /\ dials' = [dials EXCEPT ![d] = DialDone]
                /\ UNCHANGED <<hosts, netsk>>
    \* the reply is consumed; a handler that has returned is forgotten
    /\ handlers' = [handlers EXCEPT ![d] = IF @.pc = "done" THEN HandlerDone("", NoReply)
                                           ELSE [@ EXCEPT !.reply = NoReply]]
    /\ UNCHANGED <<net, registry, newhosts, listeners>>
    /\ UNCHANGED <<accepts, purges>>
    /\ HistReturn(<<"d", d>>)

\* ---- _SubNetwork.__loaccept with VirtSubNetwork._vnet_accept ----
\* an ereply that sends the name of every error as it is
EReplyName(err) == <<err>>

\* ereply: the text sent for an error
EReplyArg(err) == IF err = "ErrConnRefused" THEN <<"connection refused">> ELSE <<err>>

\* a _loaccept that leaves osconn open on the error raised
HandlerFailOpen(d, err) ==
    /\ handlers' = [handlers EXCEPT ![d] = HandlerDone(err, [verb |-> "E", arg |-> EReplyArg(err)])]
    /\ netsk' = netsk

\* ereply / eproto, and _loaccept closing osconn on the error raised
HandlerFail(d, err) ==
    /\ handlers' = [handlers EXCEPT ![d] = HandlerDone(err, [verb |-> "E", arg |-> EReplyArg(err)])]
    /\ netsk' = [netsk EXCEPT ![d].acc = "closed"]

\* __loaccept up to the listener found by _vnet_accept: "ok" or the error raised
LoAcceptRes(hd) ==
    LET asrc == AddrParse(hd.network, hd.src)
        adst == AddrParse(hd.network, hd.dst)
    IN  IF hd.network # Network THEN "protocolError"
        ELSE IF ~asrc.ok THEN "protocolError"
        ELSE IF ~adst.ok THEN "protocolError"
        ELSE IF adst.host \notin hostmap THEN "gaierror"
        ELSE IF adst.port >= Len(hosts[adst.host]._socketv) THEN "ErrConnRefused"
        ELSE IF PyIndex(hosts[adst.host]._socketv, adst.port) < 0 THEN "IndexError"
        ELSE LET sk == PyAt(hosts[adst.host]._socketv,
                            PyIndex(hosts[adst.host]._socketv, adst.port))
             IN  IF sk = None THEN "ErrConnRefused"
                 ELSE IF sockets[sk]._listener = None THEN "ErrConnRefused"
                 ELSE "ok"

\* the dial line is read and parsed, and _vnet_accept looks the listener up
LoAccept(d) ==
    /\ d \in DOMAIN handlers
    /\ handlers[d].pc = "line"
    /\ LET hd   == handlers[d]
           adst == AddrParse(hd.network, hd.dst)
           v    == hosts[adst.host]._socketv
       IN  IF LoAcceptRes(hd) # "ok"
           THEN HandlerFail(d, LoAcceptRes(hd))
           ELSE /\ handlers' = [handlers EXCEPT ![d].pc = "dialq",
                                   ![d].src = <<>>, ![d].dst = <<>>,
                                   ![d].from = AddrParse(hd.network, hd.src),
                                   ![d].l = sockets[PyAt(v, PyIndex(v, adst.port))]._listener]
                /\ UNCHANGED netsk
    /\ UNCHANGED <<net, hosts, registry, newhosts, sockets, listeners, conns>>
    /\ UNCHANGED <<dials, accepts, purges>>
    /\ UNCHANGED hist

\* _vnet_accept's select takes l._down: connection refused
VnetAcceptDown(d) ==
    /\ d \in DOMAIN handlers
    /\ handlers[d].pc = "dialq"
    /\ listeners[handlers[d].l]._down
    /\ HandlerFail(d, "ErrConnRefused")
    /\ UNCHANGED <<net, hosts, registry, newhosts, sockets, listeners, conns>>
    /\ UNCHANGED <<dials, accepts, purges>>
    /\ hist' = [hist EXCEPT !.refused = @ \cup {d}]

\* ---- listener.accept ----
\* an _excDown that tests the host before the subnetwork
ListenerExcDownHostFirst(l) ==
    IF hosts[sockets[listeners[l]._socket]._host]._down THEN "ErrHostDown"
    ELSE IF net._down THEN "ErrNetDown"
    ELSE "ErrSockDown"

\* listener._excDown
ListenerExcDown(l) ==
    IF net._down THEN "ErrNetDown"
    ELSE IF hosts[sockets[listeners[l]._socket]._host]._down THEN "ErrHostDown"
    ELSE "ErrSockDown"

AcceptBegin(t, l) ==
    /\ accepts[t].pc = "idle"
    /\ l \in DOMAIN listeners
    /\ accepts' = [accepts EXCEPT ![t] = [pc |-> "dialq", l |-> l, req |-> 0]]
    /\ UNCHANGED <<net, hosts, registry, newhosts, sockets, listeners, conns>>
    /\ UNCHANGED <<netsk, dials, handlers, purges>>
    /\ hist' = [hist EXCEPT !.late = IF listeners[l]._down
                                      THEN @ \cup {<<"t", t>>} ELSE @]

\* the first select takes l._down: accept raises ListenerExcDown
AcceptDown(t) ==
    /\ accepts[t].pc = "dialq"
    /\ listeners[accepts[t].l]._down
    /\ accepts' = [accepts EXCEPT ![t] = IdleAccept]
    /\ UNCHANGED <<net, hosts, registry, newhosts, sockets, listeners, conns>>
    /\ UNCHANGED <<netsk, dials, handlers, purges>>
    /\ HistReturn(<<"t", t>>)

\* a rendezvous after which the sender still offers its request
RaceDialqRendezvousKeep(d, t) ==
    /\ d \in DOMAIN handlers
    /\ handlers[d].pc = "dialq"
    /\ accepts[t].pc = "dialq"
    /\ accepts[t].l = handlers[d].l
    /\ handlers' = handlers
    /\ accepts' = [accepts EXCEPT ![t].pc = "alloc", ![t].req = d]
    /\ UNCHANGED <<net, hosts, registry, newhosts, sockets, listeners, conns>>
    /\ UNCHANGED <<netsk, dials, purges>>
    /\ hist' = [hist EXCEPT !.rdv = Append(@, <<accepts[t].l, d>>)]

\* l._dialq: _vnet_accept's send meets accept's receive
DialqRendezvous(d, t) ==
    /\ d \in DOMAIN handlers
    /\ handlers[d].pc = "dialq"
    /\ accepts[t].pc = "dialq"
    /\ accepts[t].l = handlers[d].l
    /\ handlers' = [handlers EXCEPT ![d].pc = "resp"]
    /\ accepts' = [accepts EXCEPT ![t].pc = "alloc", ![t].req = d]
    /\ UNCHANGED <<net, hosts, registry, newhosts, sockets, listeners, conns>>
    /\ UNCHANGED <<netsk, dials, purges>>
    /\ hist' = [hist EXCEPT !.rdv = Append(@, <<accepts[t].l, d>>)]

\* accept allocates the socket and sends Accept(sk.addr(), ack) on req._resp;
\* the handler, which waits in resp.recv, writes the connected reply and
\* offers the result of that write (None) on ack
AcceptAlloc(t) ==
    /\ accepts[t].pc = "alloc"
    /\ LET d  == accepts[t].req
           sk == <<"a", d>>
           h  == sockets[listeners[accepts[t].l]._socket]._host
           v  == hosts[h]._socketv
       IN  /\ sockets' = MapPut(sockets, sk, NewSocket(h, AllocFreePort(v)))
           /\ hosts' = [hosts EXCEPT ![h]._socketv = AllocFreeSocket(v, sk)]
           /\ handlers' = [handlers EXCEPT ![d].pc = "ack", ![d].ack = "None",
                   ![d].reply = [verb |-> "connected",
                                 arg |-> addrstr4(h, AllocFreePort(v))]]
    /\ accepts' = [accepts EXCEPT ![t].pc = "ack"]
    /\ UNCHANGED <<net, registry, newhosts, listeners, conns>>
    /\ UNCHANGED <<netsk, dials, purges>>
    /\ hist' = [hist EXCEPT !.lastacc[sockets[listeners[accepts[t].l]._socket]._host] =
                                  sockets'[<<"a", accepts[t].req>>]._port]

\* a handler that offers its ack once more after it was received
HandlerAckedAgain(hd) == hd

\* the handler returns after its ack.send(err) was received: __loaccept returns
\* or re-raises the error of the reply write, and _loaccept then closes osconn
HandlerAcked(hd) ==
    IF hd.ack = "None" THEN HandlerDone(IF hd.reply = NoReply THEN "" ELSE "ok", hd.reply)
    ELSE HandlerDone(hd.ack, EOFReply)

\* an accept that takes every ack for success
AckNeverFailed(err) == FALSE

\* accept's test of the ack received: err is not None
AckFailed(err) == err # "None"

\* the write of the connected reply fails (the dialer's end is gone, or the
\* system refuses the write): the handler offers the error on ack
ReplyFail(d) ==
    /\ d \in DOMAIN handlers
    /\ handlers[d].pc = "ack"
    /\ handlers[d].ack = "None"
    /\ handlers[d].reply # NoReply
    /\ handlers' = [handlers EXCEPT ![d].ack = "socket.error", ![d].reply = NoReply]
    /\ UNCHANGED <<net, hosts, registry, newhosts, sockets, listeners, conns>>
    /\ UNCHANGED <<netsk, dials, accepts, purges>>
    /\ UNCHANGED hist

\* the second select takes ack: the conn is made, or the slot released
AcceptAck(t) ==
    /\ accepts[t].pc = "ack"
    /\ handlers[accepts[t].req].pc = "ack"
    /\ LET d  == accepts[t].req
           sk == <<"a", d>>
           h  == sockets[sk]._host
       IN  /\ handlers' = [handlers EXCEPT ![d] = HandlerAcked(@)]
           /\ netsk' = IF handlers[d].ack # "None"
                       THEN [netsk EXCEPT ![d].acc = "closed"] ELSE netsk
           /\ IF AckFailed(handlers[d].ack)
              THEN /\ hosts' = [hosts EXCEPT ![h]._socketv = ReleaseSlot(@, sockets[sk]._port)]
                   /\ sockets' = MapDel(sockets, sk)
                   /\ accepts' = [accepts EXCEPT ![t].pc = "dialq", ![t].req = 0]
                   /\ UNCHANGED conns
              ELSE /\ conns' = MapPut(conns, sk, [_socket |-> sk, _peerAddr |-> handlers[d].from,
                                                  _down |-> FALSE, _close_once |-> FALSE])
                   /\ sockets' = [sockets EXCEPT ![sk].conn = sk]
                   /\ accepts' = [accepts EXCEPT ![t] = IdleAccept]
                   /\ UNCHANGED hosts
    /\ UNCHANGED <<net, registry, newhosts, listeners>>
    /\ UNCHANGED <<dials, purges>>
    /\ IF AckFailed(handlers[accepts[t].req].ack)
       THEN HistKeep
       ELSE hist' = [hist EXCEPT !.ret = Append(@, <<accepts[t].l, accepts[t].req>>),
                                 !.late = @ \ {<<"t", t>>}]

\* an accept that takes l._down in its second select and starts no purgesk
AcceptAckDownNoPurge(t) ==
    /\ accepts[t].pc = "ack"
    /\ listeners[accepts[t].l]._down
    /\ accepts' = [accepts EXCEPT ![t] = IdleAccept]
    /\ UNCHANGED <<net, hosts, registry, newhosts, sockets, listeners, conns>>
    /\ UNCHANGED <<netsk, dials, handlers, purges>>
    /\ HistReturn(<<"t", t>>)

\* the second select takes l._down: purgesk is started, accept raises ListenerExcDown
AcceptAckDown(t) ==
    /\ accepts[t].pc = "ack"
    /\ listeners[accepts[t].l]._down
    /\ purges' = purges \cup {accepts[t].req}
    /\ accepts' = [accepts EXCEPT ![t] = IdleAccept]
    /\ UNCHANGED <<net, hosts, registry, newhosts, sockets, listeners, conns>>
    /\ UNCHANGED <<netsk, dials, handlers>>
    /\ HistReturn(<<"t", t>>)

\* a purgesk that leaves the stream as it is
PurgeCloseNothing(ns, d, err) == ns

\* purgesk on the ack received: req._netsk.close() if err is None
PurgeClose(ns, d, err) == IF err = "None" THEN [ns EXCEPT ![d].acc = "closed"] ELSE ns

\* purgesk: receives the ack, closes the stream of a request that was acked
\* with success, and releases the slot
Purgesk(d) ==
    /\ d \in purges
    /\ handlers[d].pc = "ack"
    /\ LET sk == <<"a", d>>
           h  == sockets[sk]._host
       IN  /\ handlers' = [handlers EXCEPT ![d] = HandlerAcked(@)]
           \* the stream is closed by purgesk, or by the handler that failed
           /\ netsk' = IF handlers[d].ack = "None" THEN PurgeClose(netsk, d, handlers[d].ack)
                       ELSE [netsk EXCEPT ![d].acc = "closed"]
           /\ hosts' = [hosts EXCEPT ![h]._socketv = ReleaseSlot(@, sockets[sk]._port)]
           /\ sockets' = MapDel(sockets, sk)
    /\ purges' = purges \ {d}
    /\ UNCHANGED <<net, registry, newhosts, listeners, conns>>
    /\ UNCHANGED <<dials, accepts>>
    /\ HistKeep

\* ---- the addresses the calls are made with ----
ListenAddrs ==
    {<<>>, <<"x">>}
        \cup {addrstr4(<<>>, p) : p \in (0 - 2)..MaxPort}
        \cup {addrstr4(g, 1) : g \in HostNames}

DialAddrs ==
    {<<"x">>, addrstr4(NoHostName, 1)}
        \cup {addrstr4(g, p) : g \in {<<>>} \cup HostNames, p \in 0..(MaxPort + 1)}

\* ---- the network in use: listen, dial, accept and the closes of listeners and conns ----
\* the subnetwork after new_host was called for every name of HostNames
InitNet ==
    /\ net = [_nopenhosts |-> Cardinality(HostNames), _autoclose |-> FALSE, _down |-> FALSE,
              _oslistener |-> "open", pc |-> "", withHosts |-> FALSE, task |-> ""]
    /\ hosts = [h \in HostNames |-> [_socketv |-> <<>>, _down |-> FALSE, _close_once |-> FALSE]]
    /\ registry = RegistryOf([h \in HostNames |-> OsAddr], MetaOf(Network))
    /\ newhosts = {}
    /\ sockets = << >>
    /\ listeners = << >>
    /\ conns = << >>
    /\ netsk = << >>
    /\ dials = << >>
    /\ handlers = << >>
    /\ accepts = [t \in 1..MaxAcc |-> IdleAccept]
    /\ purges = {}
    /\ hist = NoHist

Traffic(maxdial) ==
    \/ \E d \in 1..maxdial : DialQuery(d)
    \/ \E d \in 1..maxdial : DialFinish(d)
    \/ \E d \in 1..maxdial : LoAccept(d)
    \/ \E d \in 1..maxdial : VnetAcceptDown(d)
    \/ \E t \in DOMAIN accepts, l \in DOMAIN listeners : AcceptBegin(t, l)
    \/ \E t \in DOMAIN accepts : AcceptDown(t)
    \/ \E d \in 1..maxdial, t \in DOMAIN accepts : DialqRendezvous(d, t)
    \/ \E t \in DOMAIN accepts : AcceptAlloc(t)
    \/ \E t \in DOMAIN accepts : AcceptAck(t)
    \/ \E t \in DOMAIN accepts : AcceptAckDown(t)
    \/ \E d \in 1..maxdial : Purgesk(d)
    \/ \E l \in DOMAIN listeners : ListenerClose(l)
    \/ \E c \in DOMAIN conns : ConnClose(c)

Next ==
    \/ \E h \in HostNames, laddr \in ListenAddrs : Listen(h, laddr, MaxListen)
    \/ \E h \in HostNames, addr \in DialAddrs : DialBegin(h, addr, MaxDial)
    \/ Traffic(MaxDial)

Spec == InitNet /\ [][Next]_vars

\* ---- the life of the subnetwork and its hosts, from construction on ----
\* the names another subnetwork calls new_host with
PeerNames == {<<"a">>}

NextLife ==
    \/ \E name \in HostNames : NewHostAnnounce(name)
    \/ \E name \in HostNames : NewHostInsert(name)
    \/ \E h \in HostNames : HostClose(h)
    \/ \E name \in PeerNames : PeerAnnounce(name)
    \/ SubnetClose
    \/ ShutdownHosts
    \/ ShutdownVnetClose
    \/ ShutdownRegistryClose
    \/ Autoclose
    \/ \E h \in HostNames, laddr \in ListenAddrs : Listen(h, laddr, LifeListen)
    \/ \E h \in HostNames, addr \in DialAddrs : DialBegin(h, addr, LifeDial)
    \/ Traffic(LifeDial)

SpecLife == Init /\ [][NextLife]_vars

\* the task that runs __shutdown goes on to its end, and a task in accept takes
\* a case of its select that is ready
SpecLifeFair ==
    /\ SpecLife
    /\ WF_vars(ShutdownHosts \/ ShutdownVnetClose \/ ShutdownRegistryClose)
    /\ \A t \in 1..MaxAcc :
          WF_vars(AcceptDown(t) \/ AcceptAlloc(t) \/ AcceptAck(t) \/ AcceptAckDown(t))

\* ---- the network in use with few addresses: every listen is for a free port or
\* for port 1 of the host itself, every dial is to port 1 of host a ----
OrderListenAddrs == {<<>>, addrstr4(<<>>, 1)}
OrderDialAddrs   == {addrstr4(<<"a">>, 1)}

NextOrder ==
    \/ \E h \in HostNames, laddr \in OrderListenAddrs : Listen(h, laddr, OrderListen)
    \/ \E h \in HostNames, addr \in OrderDialAddrs : DialBegin(h, addr, MaxDial)
    \/ Traffic(MaxDial)

SpecOrder == InitNet /\ [][NextOrder]_vars

\* ---- the network in use with reply writes that can fail ----
NextAck ==
    \/ \E h \in HostNames, laddr \in OrderListenAddrs : Listen(h, laddr, LifeListen)
    \/ \E h \in HostNames, addr \in OrderDialAddrs : DialBegin(h, addr, MaxDial)
    \/ Traffic(MaxDial)
    \/ \E d \in 1..MaxDial : ReplyFail(d)

SpecAck == InitNet /\ [][NextAck]_vars

\* purgesk runs in a task of its own (go(purgesk)), which the scheduler serves
SpecAckFair == SpecAck /\ WF_vars(\E d \in 1..MaxDial : Purgesk(d))

\* and a task in accept takes a case of its second select that is ready
SpecAckLive ==
    /\ SpecAck
    /\ \A d \in 1..MaxDial : WF_vars(Purgesk(d))
    /\ \A t \in 1..MaxAcc : WF_vars(AcceptAck(t) \/ AcceptAckDown(t))

\* ---- the network in use with several tasks in accept on one listener ----
RaceAcc == 2      \* threads that call listener.accept

InitRace ==
    /\ net = [_nopenhosts |-> Cardinality(HostNames), _autoclose |-> FALSE, _down |-> FALSE,
              _oslistener |-> "open", pc |-> "", withHosts |-> FALSE, task |-> ""]
    /\ hosts = [h \in HostNames |-> [_socketv |-> <<>>, _down |-> FALSE, _close_once |-> FALSE]]
    /\ registry = RegistryOf([h \in HostNames |-> OsAddr], MetaOf(Network))
    /\ newhosts = {}
    /\ sockets = << >>
    /\ listeners = << >>
    /\ conns = << >>
    /\ netsk = << >>
    /\ dials = << >>
    /\ handlers = << >>
    /\ accepts = [t \in 1..RaceAcc |-> IdleAccept]
    /\ purges = {}
    /\ hist = NoHist

NextRace ==
    \/ \E laddr \in OrderListenAddrs : Listen(<<"a">>, laddr, LifeListen)
    \/ \E addr \in OrderDialAddrs : DialBegin(<<"a">>, addr, MaxDial)
    \/ Traffic(MaxDial)

SpecRace == InitRace /\ [][NextRace]_vars

\* ---- the handshake lines: quoting, matching and unquoting ----
\* a text is a sequence of characters
WireLen   == 2      \* longest network name, address or argument written on a line
WireChars == {"x", "\"", "\\"}
WireStrs  == UNION {[1..n -> WireChars] : n \in 0..WireLen}
WireVerbs == {<<"E">>, <<"c", "o", "n", "n", "e", "c", "t", "e", "d">>}

RECURSIVE qqBody(_)
\* the escapes of qq: " -> \", \ -> \\, newline -> \n
qqBody(s) ==
    IF s = <<>> THEN <<>>
    ELSE (IF s[1] = "\"" THEN <<"\\", "\"">>
          ELSE IF s[1] = "\\" THEN <<"\\", "\\">>
          ELSE IF s[1] = "\n" THEN <<"\\", "n">>
          ELSE <<s[1]>>) \o qqBody(Tail(s))

\* qq(s): s quoted as Go's %q does
qq(s) == <<"\"">> \o qqBody(s) \o <<"\"">>

RECURSIVE StringEscape(_)
\* str.decode('string_escape')
StringEscape(s) ==
    IF s = <<>> THEN <<>>
    ELSE IF s[1] # "\\" THEN <<s[1]>> \o StringEscape(Tail(s))
    ELSE IF Len(s) = 1 THEN <<"ValueError">>
    ELSE IF s[2] \in {"\\", "\"", "'"} THEN <<s[2]>> \o StringEscape(Tail(Tail(s)))
    ELSE IF s[2] = "n" THEN <<"\n">> \o StringEscape(Tail(Tail(s)))
    ELSE <<"\\">> \o StringEscape(Tail(s))

\* the items of a pattern: a literal text, the group .*?[^\\] and the group [^\s]+
ReLit(cs) == [kind |-> "lit", cs |-> cs]
ReQuoted  == [kind |-> "quoted", cs |-> <<>>]
ReWord    == [kind |-> "word", cs |-> <<>>]
NoMatch   == [ok |-> FALSE, groups |-> <<>>]

\* the n characters of line from pos on are a text the group can match
ReGroupOk(kind, line, pos, n) ==
    IF kind = "quoted"
    THEN /\ \A i \in 0..(n - 2) : line[pos + i] # "\n"
         /\ line[pos + n - 1] # "\\"
    ELSE \A i \in 0..(n - 1) : line[pos + i] \notin {" ", "\t", "\n"}

SubText(line, pos, n) == [i \in 1..n |-> line[pos + i - 1]]

RECURSIVE ReMatch(_, _, _, _)
\* re.match of the items k.. at pos: the groups of the first match that the
\* backtracking finds, the lazy group tried shortest first, the greedy one
\* longest first
ReMatch(line, pos, items, k) ==
    IF k > Len(items) THEN [ok |-> TRUE, groups |-> <<>>]
    ELSE IF items[k].kind = "lit"
    THEN IF /\ pos + Len(items[k].cs) - 1 <= Len(line)
            /\ \A i \in 1..Len(items[k].cs) : line[pos + i - 1] = items[k].cs[i]
         THEN ReMatch(line, pos + Len(items[k].cs), items, k + 1)
         ELSE NoMatch
    ELSE LET lens == {n \in 1..(Len(line) - pos + 1) :
                         /\ ReGroupOk(items[k].kind, line, pos, n)
                         /\ ReMatch(line, pos + n, items, k + 1).ok}
         IN  IF lens = {} THEN NoMatch
             ELSE LET n == IF items[k].kind = "quoted"
                           THEN CHOOSE x \in lens : \A y \in lens : x <= y
                           ELSE CHOOSE x \in lens : \A y \in lens : x >= y
                  IN  [ok |-> TRUE,
                       groups |-> <<SubText(line, pos, n)>>
                                  \o ReMatch(line, pos + n, items, k + 1).groups]

\* _lodial_re: > lonet "(network)" dial "(src)" "(dst)"\n
lodial_re ==
    << ReLit(<<">", " ", "l", "o", "n", "e", "t", " ", "\"">>), ReQuoted,
       ReLit(<<"\"", " ", "d", "i", "a", "l", " ", "\"">>), ReQuoted,
       ReLit(<<"\"", " ", "\"">>), ReQuoted,
       ReLit(<<"\"", "\n">>) >>

\* _loreply_re: < lonet "(network)" (reply) "(arg)"\n
loreply_re ==
    << ReLit(<<"<", " ", "l", "o", "n", "e", "t", " ", "\"">>), ReQuoted,
       ReLit(<<"\"", " ">>), ReWord,
       ReLit(<<" ", "\"">>), ReQuoted,
       ReLit(<<"\"", "\n">>) >>

\* the line __loconnect sends: "> lonet %s dial %s %s\n" % (qq(network), qq(src), qq(dst))
DialLine(network, src, dst) ==
    <<">", " ", "l", "o", "n", "e", "t", " ">> \o qq(network)
    \o <<" ", "d", "i", "a", "l", " ">> \o qq(src) \o <<" ">> \o qq(dst) \o <<"\n">>

\* the line reply() sends: "< lonet %s %s\n" % (qq(network), reply), where reply
\* is "connected %s" % qq(addr) or "E %s" % qq(e)
ReplyLine(network, verb, arg) ==
    <<"<", " ", "l", "o", "n", "e", "t", " ">> \o qq(network)
    \o <<" ">> \o verb \o <<" ">> \o qq(arg) \o <<"\n">>

\* skreadline: the bytes of the stream up to and with the first newline
skreadline(stream) ==
    IF \E i \in 1..Len(stream) : stream[i] = "\n"
    THEN SubSeq(stream, 1, CHOOSE i \in 1..Len(stream) :
                              stream[i] = "\n" /\ \A j \in 1..(i - 1) : stream[j] # "\n")
    ELSE stream

\* what __loaccept makes of the dial line: m is None, or network, src and dst
LodialParse(stream) ==
    LET m == ReMatch(skreadline(stream), 1, lodial_re, 1)
    IN  IF ~m.ok THEN [ok |-> FALSE, network |-> <<>>, src |-> <<>>, dst |-> <<>>]
        ELSE [ok |-> TRUE, network |-> StringEscape(m.groups[1]),
              src |-> StringEscape(m.groups[2]), dst |-> StringEscape(m.groups[3])]

\* what __loconnect makes of the reply line: m is None, or network, reply and
\* arg; reply is not unescaped
LoreplyParse(stream) ==
    LET m == ReMatch(skreadline(stream), 1, loreply_re, 1)
    IN  IF ~m.ok THEN [ok |-> FALSE, network |-> <<>>, reply |-> <<>>, arg |-> <<>>]
        ELSE [ok |-> TRUE, network |-> StringEscape(m.groups[1]),
              reply |-> m.groups[2], arg |-> StringEscape(m.groups[3])]

\* __loconnect writes the dial line on a new stream
WireConnect(network, src, dst) ==
    /\ netsk = << >>
    /\ netsk' = << [dial |-> DialLine(network, src, dst), acc |-> <<>>] >>
    /\ dials' = << [pc |-> "sent", network |-> network, src |-> src, dst |-> dst] >>
    /\ UNCHANGED <<net, hosts, registry, newhosts, sockets, listeners, conns>>
    /\ UNCHANGED <<handlers, accepts, purges, hist>>

\* __loaccept reads the dial line and parses it
WireLoaccept ==
    /\ Len(netsk) = 1 /\ netsk[1].dial # <<>>
    /\ handlers = << >>
    /\ handlers' = << [pc |-> "parsed", m |-> LodialParse(netsk[1].dial)] >>
    /\ UNCHANGED <<net, hosts, registry, newhosts, sockets, listeners, conns>>
    /\ UNCHANGED <<netsk, dials, accepts, purges, hist>>

\* __loaccept writes a reply line on a stream
WireReply(network, verb, arg) ==
    /\ netsk = << >>
    /\ netsk' = << [dial |-> <<>>, acc |-> ReplyLine(network, verb, arg)] >>
    /\ handlers' = << [pc |-> "replied", network |-> network, reply |-> verb, arg |-> arg] >>
    /\ UNCHANGED <<net, hosts, registry, newhosts, sockets, listeners, conns>>
    /\ UNCHANGED <<dials, accepts, purges, hist>>

\* __loconnect reads the reply line and parses it
WireLoconnect ==
    /\ Len(netsk) = 1 /\ netsk[1].acc # <<>>
    /\ dials = << >>
    /\ dials' = << [pc |-> "parsed", m |-> LoreplyParse(netsk[1].acc)] >>
    /\ UNCHANGED <<net, hosts, registry, newhosts, sockets, listeners, conns>>
    /\ UNCHANGED <<netsk, handlers, accepts, purges, hist>>

NextWire ==
    \/ \E network, src, dst \in WireStrs : WireConnect(network, src, dst)
    \/ WireLoaccept
    \/ \E network, arg \in WireStrs, verb \in WireVerbs : WireReply(network, verb, arg)
    \/ WireLoconnect

SpecWire == InitNet /\ [][NextWire]_vars

\* ---- the network in use with listens on explicit ports ----
ListenPort  == 3       \* largest port number written in a listen address
ListenCalls == 2       \* successful Host.listen calls in one behaviour
ListenPortAddrs == {<<>>} \cup {addrstr4(<<>>, p) : p \in 1..ListenPort}

NextListen ==
    \/ \E h \in HostNames, laddr \in ListenPortAddrs : Listen(h, laddr, ListenCalls)
    \/ \E h \in HostNames, addr \in OrderDialAddrs : DialBegin(h, addr, LifeDial)
    \/ Traffic(LifeDial)

SpecListen == InitNet /\ [][NextListen]_vars

\* ---- the life of the subnetwork with a real listener that can fail ----
NextServe ==
    \/ NextLife
    \/ ServeError

SpecServe == Init /\ [][NextServe]_vars

\* ---- the same life with few addresses: every listen is for a free port or for
\* port 1, every dial is to port 1 of host a ----
NextServeOrder ==
    \/ \E name \in HostNames : NewHostAnnounce(name)
    \/ \E name \in HostNames : NewHostInsert(name)
    \/ \E h \in HostNames : HostClose(h)
    \/ SubnetClose
    \/ ShutdownHosts
    \/ ShutdownVnetClose
    \/ ShutdownRegistryClose
    \/ ServeError
    \/ \E h \in HostNames, laddr \in OrderListenAddrs : Listen(h, laddr, LifeListen)
    \/ \E h \in HostNames, addr \in OrderDialAddrs : DialBegin(h, addr, LifeDial)
    \/ Traffic(LifeDial)

SpecServeOrder == Init /\ [][NextServeOrder]_vars

\* ---- the registry file and the pool alone: a database that nobody has opened yet ----
InitRegistry ==
    /\ net = [_nopenhosts |-> 0, _autoclose |-> FALSE, _down |-> FALSE,
              _oslistener |-> "open", pc |-> "", withHosts |-> FALSE, task |-> ""]
    /\ hosts = << >>
    /\ registry = [RegistryOf(<< >>, << >>) EXCEPT !._connv = <<>>, !.dbconns = <<>>]
    /\ newhosts = {}
    /\ sockets = << >>
    /\ listeners = << >>
    /\ conns = << >>
    /\ netsk = << >>
    /\ dials = << >>
    /\ handlers = << >>
    /\ accepts = [t \in 1..MaxAcc |-> IdleAccept]
    /\ purges = {}
    /\ hist = NoHist

NextRegistry ==
    \/ \E network \in OpenNames : OpenBegin(network)
    \/ \E o \in 1..MaxOpen : OpenSchemaver(o)
    \/ \E o \in 1..MaxOpen : OpenNetwork(o)
    \/ \E o \in 1..MaxOpen : OpenSetNetwork(o)
    \/ \E name \in PeerNames : PeerAnnounce(name)
    \/ PoolGet
    \/ PoolGetNew
    \/ \E c \in 1..MaxConn : PoolPut(c)
    \/ PoolClose
    \/ PoolCloseConns

SpecRegistry == InitRegistry /\ [][NextRegistry]_vars

\* ==== the properties ====
\* the smallest p >= 1 whose slot of table v is null or lies beyond the table
MinFree(v) ==
    CHOOSE p \in 1..(Len(v) + 1) :
        /\ (p >= Len(v) \/ PyAt(v, p) = None)
        /\ \A q \in 1..(p - 1) : q < Len(v) /\ PyAt(v, q) # None

\* the table of host h
Table(h) == hosts[h]._socketv

\* socket s is new in the step and was placed by the allocator: it belongs to a
\* dial or to an accept, or to a listen whose address has port 0
Allocated(s) ==
    /\ s \in DOMAIN sockets' \ DOMAIN sockets
    /\ \/ s[1] \in {"d", "a"}
       \/ \E h \in HostNames, laddr \in ListenAddrs :
              /\ ListenAddr(h, laddr).ok
              /\ ListenAddr(h, laddr).port = 0
              /\ Listen(h, laddr, MaxListen)

\* C1: whenever Host.dial, listener.accept or Host.listen with port 0 allocates a
\* socket, the port chosen is the smallest p >= 1 whose slot is null at that
\* moment (the table is extended when every slot >= 1 is occupied), the socket
\* is installed at that index, no other slot changes, and port 0 is never chosen
C1_LowestFreePort ==
    [][\A s \in DOMAIN sockets' :
          Allocated(s) =>
              LET h == sockets'[s]._host
                  p == sockets'[s]._port
              IN  /\ p = MinFree(Table(h))
                  /\ p >= 1
                  /\ p < Len(hosts'[h]._socketv)
                  /\ PyAt(hosts'[h]._socketv, p) = s
                  /\ Len(hosts'[h]._socketv) = (IF p >= Len(Table(h)) THEN p + 1 ELSE Len(Table(h)))
                  /\ \A q \in 0..(Len(Table(h)) - 1) :
                         q # p => PyAt(hosts'[h]._socketv, q) = PyAt(Table(h), q)]_vars

\* a host whose table holds, each placed by the allocator, a dialing socket at
\* port 1, a listener at port 2 and an accepted socket at port 3
C1_Witness ==
    \E h \in hostmap :
        /\ Len(Table(h)) = 4
        /\ PyAt(Table(h), 1) # None /\ PyAt(Table(h), 1)[1] = "d"
        /\ PyAt(Table(h), 2) # None /\ PyAt(Table(h), 2)[1] = "l"
        /\ PyAt(Table(h), 3) # None /\ PyAt(Table(h), 3)[1] = "a"
        /\ \A p \in 1..3 : sockets[PyAt(Table(h), p)]._port = p

\* C2: after any sequence of listen (any integer port Addr.parse accepts), dial,
\* accept and close operations, every non-null slot socketv[p] holds a socket
\* whose port is p, p is positive, and slot 0 is null
C2_SocketvInvariant ==
    \A h \in hostmap :
        \A p \in 0..(Len(Table(h)) - 1) :
            PyAt(Table(h), p) # None =>
                /\ sockets[PyAt(Table(h), p)]._port = p
                /\ p > 0

\* a dial or an accept (with its purgesk) is in progress on host h
InProgress(h) ==
    \/ \E d \in DOMAIN dials : dials[d].pc # "done" /\ dials[d].host = h
    \/ \E t \in DOMAIN accepts :
           /\ accepts[t].pc # "idle"
           /\ sockets[listeners[accepts[t].l]._socket]._host = h
    \/ \E d \in purges : sockets[<<"a", d>>]._host = h

\* C3: whenever no dial or accept is in progress on a host, every socket in a
\* slot of its table carries a listener or a conn; the socket of a conn
\* returned by accept (as the one of a conn returned by dial) has that conn
\* attached as long as the conn is not closed
C3_SocketsCarry ==
    \A h \in hostmap :
        ~InProgress(h) =>
            /\ \A s \in HostSockets(h) :
                   sockets[s]._conn # None \/ sockets[s]._listener # None
            /\ \A c \in DOMAIN conns :
                   (sockets[conns[c]._socket]._host = h /\ ~conns[c]._close_once)
                       => sockets[conns[c]._socket]._conn = c

\* C4: in every state reachable by new_host and Host.close calls (repeated
\* closes included) the subnet's nopenhosts is >= 0 and equals the number of
\* hosts of hostmap on which close has not yet been called
C4_NOpenHosts ==
    /\ net._nopenhosts >= 0
    /\ net._nopenhosts = Cardinality({h \in hostmap : ~hosts[h]._close_once})

\* the local address of conn c: the network, the host and the port of its socket
LocalAddr(c) ==
    [ok |-> TRUE, net |-> Network, host |-> sockets[conns[c]._socket]._host,
     port |-> sockets[conns[c]._socket]._port]

\* C5: for every dial that returned a conn and the accept that returned the
\* matching conn, the dialer's remote address is the acceptor's local address and
\* the acceptor's remote address is the dialer's local address
C5_AddressesAgree ==
    \A d \in DOMAIN dials :
        (<<"d", d>> \in DOMAIN conns /\ <<"a", d>> \in DOMAIN conns) =>
            /\ conns[<<"d", d>>]._peerAddr = LocalAddr(<<"a", d>>)
            /\ conns[<<"a", d>>]._peerAddr = LocalAddr(<<"d", d>>)

\* a dial from b:1 to a:1 was accepted at a:2, and both calls returned their conn
C5_Witness ==
    \E d \in DOMAIN dials :
        /\ <<"d", d>> \in DOMAIN conns /\ <<"a", d>> \in DOMAIN conns
        /\ SockAddr(<<"d", d>>) = Addr(Network, <<"b">>, 1)
        /\ conns[<<"d", d>>]._peerAddr = Addr(Network, <<"a">>, 2)
        /\ SockAddr(<<"a", d>>) = Addr(Network, <<"a">>, 2)
        /\ conns[<<"a", d>>]._peerAddr = Addr(Network, <<"b">>, 1)

\* dial d returns in the step, and raises
DialFails(d) ==
    /\ d \in DOMAIN dials
    /\ dials[d].pc # "done"
    /\ dials'[d].pc = "done"
    /\ <<"d", d>> \notin DOMAIN conns'

\* C6: when Host.dial fails, for whatever reason, the slot it reserved is null
\* when dial returns and every other slot of the table is unchanged, so that
\* the next allocation hands out the same port unless a lower one is free
C6_FailedDialReleases ==
    [][\A d \in DOMAIN dials :
          DialFails(d) =>
              LET h == dials[d].host
                  p == sockets[<<"d", d>>]._port
                  v == hosts'[h]._socketv
              IN  /\ PyAt(Table(h), p) = <<"d", d>>
                  /\ Len(v) = Len(Table(h))
                  /\ PyAt(v, p) = None
                  /\ \A q \in 0..(Len(v) - 1) : q # p => PyAt(v, q) = PyAt(Table(h), q)
                  /\ AllocFreePort(v) <= p
                  /\ (\A q \in 1..(p - 1) : PyAt(v, q) # None) => AllocFreePort(v) = p]_vars

\* the two dials have failed, one of them at least for connection refused or a
\* handshake error, and the table of a host they were made from is all null
C6_Witness ==
    /\ Len(dials) = 2
    /\ \A d \in DOMAIN dials : dials[d].pc = "done" /\ <<"d", d>> \notin DOMAIN conns
    /\ \E d \in DOMAIN handlers : handlers[d].pc = "done"
    /\ \E h \in hostmap : Table(h) = <<None, None>>

\* a socket with a listener is installed at port p of host g
ListenerAt(g, p) ==
    \E i \in 1..Len(Table(g)) :
        /\ i - 1 = p
        /\ Table(g)[i] # None
        /\ sockets[Table(g)[i]]._listener # None

OfListener(q, l) == LET Test(e) == e[1] = l IN SelectSeq(q, Test)

\* every entry of a is an entry of b, and the entries of a come in the order
\* they have in b (no entry occurs twice)
InOrder(a, b) ==
    \A i \in 1..Len(a) :
        /\ \E k \in 1..Len(b) : b[k] = a[i]
        /\ \A j \in (i + 1)..Len(a) :
               (CHOOSE k \in 1..Len(b) : b[k] = a[i]) < (CHOOSE k \in 1..Len(b) : b[k] = a[j])

\* the step is a listen for port 0 that returns a listener
PortZeroListen ==
    \E h \in HostNames, laddr \in ListenAddrs \cup OrderListenAddrs,
       max \in {MaxListen, OrderListen} :
        /\ ListenAddr(h, laddr).ok
        /\ ListenAddr(h, laddr).port = 0
        /\ Listen(h, laddr, max)

\* C8: within one listener the accept calls return connections in the order in
\* which their requests completed the dialq rendezvous, and as long as no slot
\* of the host is freed the port of every accepted socket, and of a listen for
\* port 0, is above the port of the socket accepted before
C8_AcceptOrder ==
    [][/\ \A l \in DOMAIN listeners :
              InOrder(OfListener(hist'.ret, l), OfListener(hist'.rdv, l))
       /\ \A s \in DOMAIN sockets' \ DOMAIN sockets :
              (s[1] = "a" \/ PortZeroListen)
                  => sockets'[s]._port > hist.lastacc[sockets'[s]._host]]_vars

\* the listener l took a:1, its accepts returned a:2 and then a:3 in the order of
\* the rendezvous, no slot of a was freed, and a later listen got a:4
C8_Witness ==
    \E l \in DOMAIN listeners : \E d1, d2 \in DOMAIN dials :
        /\ d1 # d2
        /\ SockAddr(listeners[l]._socket) = Addr(Network, <<"a">>, 1)
        /\ hist.rdv = << <<l, d1>>, <<l, d2>> >>
        /\ hist.ret = << <<l, d1>>, <<l, d2>> >>
        /\ SockAddr(<<"a", d1>>) = Addr(Network, <<"a">>, 2)
        /\ SockAddr(<<"a", d2>>) = Addr(Network, <<"a">>, 3)
        /\ hist.lastacc[<<"a">>] = 3
        /\ Len(Table(<<"a">>)) = 5
        /\ PyAt(Table(<<"a">>), 4) # None
        /\ sockets[PyAt(Table(<<"a">>), 4)]._listener # None

\* conn c is closed by the step, for the first time
ConnCloses(c) == c \in DOMAIN conns /\ ~conns[c]._close_once /\ conns'[c]._close_once

\* C9: after conn.close returns the conn is detached from its socket and, the
\* socket being empty, its slot is null and no other slot has changed; the freed
\* port is the one the next allocation chooses when no lower slot is free
C9_ConnCloseFrees ==
    [][\A c \in DOMAIN conns :
          ConnCloses(c) =>
              LET sk == conns[c]._socket
                  h  == sockets[sk]._host
                  p  == sockets[sk]._port
                  v  == hosts'[h]._socketv
              IN  /\ sockets'[sk]._conn = None
                  /\ sockets'[sk]._listener = None =>
                         /\ Len(v) = Len(Table(h))
                         /\ PyAt(v, p) = None
                         /\ \A q \in 0..(Len(v) - 1) : q # p => PyAt(v, q) = PyAt(Table(h), q)
                         /\ (\A q \in 1..(p - 1) : PyAt(v, q) # None) => AllocFreePort(v) = p]_vars

\* with a listener on b:1, the dialed conn at b:2 was closed and an accept that
\* returned afterwards has local address b:2
C9_Witness ==
    \E d1, d2 \in DOMAIN dials :
        /\ d1 # d2
        /\ <<"d", d1>> \in DOMAIN conns /\ conns[<<"d", d1>>]._close_once
        /\ SockAddr(<<"d", d1>>) = Addr(Network, <<"b">>, 2)
        /\ ListenerAt(<<"b">>, 1)
        /\ <<"a", d2>> \in DOMAIN conns
        /\ SockAddr(<<"a", d2>>) = Addr(Network, <<"b">>, 2)
        /\ PyAt(Table(<<"b">>), 2) = <<"a", d2>>

\* C10: after listener.close has returned without raising, the listener is
\* detached from its socket and, the socket being empty, the socket is in no
\* slot of the table, so that a listen on the same port of the live host does
\* not find the port in use by it
C10_ListenerCloseFrees ==
    \A l \in DOMAIN listeners :
        (listeners[l]._close_once /\ ListenerCloseRes(l) = "ok") =>
            LET sk == listeners[l]._socket
                h  == sockets[sk]._host
                p  == sockets[sk]._port
            IN  /\ sockets[sk]._listener = None
                /\ SockEmpty(sockets[sk]) => sk \notin HostSockets(h)
                /\ (/\ ~hosts[h]._down
                    /\ p > 0
                    /\ ListenRes(h, addrstr4(<<>>, p)) = "ErrAddrAlreadyUsed")
                       => PyAt(Table(h), p) # sk

\* the host of listener l
ListenerHost(l) == sockets[listeners[l]._socket]._host

\* C11: when accept takes a down path the error is network is down if the
\* subnet's down has fired, otherwise host is down if the host's down has fired,
\* otherwise socket is down; the last happens only for a listener closed by
\* listener.close, and the host's down is fired once Host.close was called
C11_DownErrorOrder ==
    /\ \A l \in DOMAIN listeners :
           listeners[l]._down =>
               /\ net._down => ListenerExcDown(l) = "ErrNetDown"
               /\ (~net._down /\ hosts[ListenerHost(l)]._down)
                      => ListenerExcDown(l) = "ErrHostDown"
               /\ (~net._down /\ ~hosts[ListenerHost(l)]._down)
                      => (ListenerExcDown(l) = "ErrSockDown" /\ listeners[l]._close_once)
    /\ \A h \in hostmap : hosts[h]._close_once => hosts[h]._down
    /\ \A l \in DOMAIN listeners : listeners[l]._close_once => listeners[l]._down

\* an accept waits on a listener that was never closed, whose host was closed
\* while the subnetwork is up: the down path it can take raises host is down
C11_Witness ==
    \E t \in DOMAIN accepts :
        /\ accepts[t].pc = "dialq"
        /\ listeners[accepts[t].l]._down
        /\ ~listeners[accepts[t].l]._close_once
        /\ hosts[ListenerHost(accepts[t].l)]._close_once
        /\ ~net._down
        /\ ListenerExcDown(accepts[t].l) = "ErrHostDown"

\* C12: Host.listen called when the subnet's down or the host's down has fired
\* fails with network is down (subnet down) or host is down (only the host
\* down), also when only the subnet's down has fired; nothing is installed
C12_ListenWhenDown ==
    \A h \in hostmap : \A laddr \in ListenAddrs :
        (/\ ListenAddr(h, laddr).ok
         /\ ListenAddr(h, laddr).host = h
         /\ (net._down \/ hosts[h]._down))
            => ListenRes(h, laddr) = (IF net._down THEN "ErrNetDown" ELSE "ErrHostDown")

\* the step makes a conn that was not there
NewConn == DOMAIN conns' # DOMAIN conns

\* C13: no Host.dial, Host.listen or listener.accept that starts after the down
\* of its host (or listener) has fired returns successfully
C13_NoSuccessAfterDown ==
    [][/\ \A d \in DOMAIN dials :
              (<<"d", d>> \in hist.late /\ dials[d].pc # "done" /\ dials'[d].pc = "done")
                  => <<"d", d>> \notin DOMAIN conns'
       /\ \A t \in DOMAIN accepts :
              (<<"t", t>> \in hist.late /\ accepts[t].pc # "idle" /\ accepts'[t].pc = "idle")
                  => ~NewConn
       /\ \A h \in hostmap :
              hosts[h]._down => {l \in DOMAIN listeners' : sockets'[listeners'[l]._socket]._host = h}
                                    \subseteq DOMAIN listeners]_vars

HostListeners(h) ==
    {l \in DOMAIN listeners : ListenerHost(l) = h /\ ~listeners[l]._close_once}
HostConns(h) ==
    {c \in DOMAIN conns : sockets[conns[c]._socket]._host = h /\ ~conns[c]._close_once}

\* C15: when the shutdown of a host (by Host.close or by the subnetwork's close)
\* completes, the host's down is fired and every listener and every conn of the
\* host at that moment, dialed or accepted, has its down fired and, for a conn,
\* its raw stream closed
C15_HostCloseCascade ==
    [][\A h \in hostmap :
           (~hosts[h]._down /\ hosts'[h]._down) =>
               /\ \A l \in HostListeners(h) : listeners'[l]._down
               /\ \A c \in HostConns(h) :
                      /\ conns'[c]._down
                      /\ IF c[1] = "d" THEN netsk'[c[2]].dial = "closed"
                                       ELSE netsk'[c[2]].acc = "closed"]_vars

\* the order of the steps of the shutdown task
ShutdownOrder == {<<"", "hosts">>, <<"hosts", "vnet">>, <<"vnet", "registry">>, <<"registry", "">>}

\* C16: subnet.close shuts down in a fixed order: the subnet's down fires first,
\* then every host of hostmap is shut down, then the adapter is closed, then
\* the registry; when close returns all four have happened
C16_CloseOrder ==
    [][/\ (~net._down /\ net'._down)
              => (/\ net'.pc = "hosts" /\ hosts' = hosts
                  /\ net'._oslistener = "open" /\ ~registry'.closed)
       /\ net.pc # net'.pc => <<net.pc, net'.pc>> \in ShutdownOrder
       /\ (net.pc = "hosts" /\ net'.pc = "vnet")
              => (/\ net._down
                  /\ net.withHosts => \A h \in hostmap : hosts'[h]._down
                  /\ net'._oslistener = "open" /\ ~registry'.closed)
       /\ net._oslistener # net'._oslistener
              => (/\ net.pc = "vnet" /\ net'.pc = "registry"
                  /\ net'._oslistener = "closed" /\ ~registry'.closed)
       /\ registry.closed # registry'.closed
              => (/\ net.pc = "registry" /\ net'.pc = ""
                  /\ registry'.closed /\ net'._down /\ net'._oslistener = "closed")
       /\ (net.pc # "" /\ net'.pc = "")
              => (net'._down /\ net'._oslistener = "closed" /\ registry'.closed)]_vars

\* subnet.close has returned: a host that was never closed itself is down with
\* its listener, the adapter and the registry are closed
C16_Witness ==
    /\ net._down /\ net.pc = "" /\ net.withHosts
    /\ net._oslistener = "closed" /\ registry.closed
    /\ \E l \in DOMAIN listeners :
           /\ listeners[l]._down /\ ~listeners[l]._close_once
           /\ hosts[ListenerHost(l)]._down /\ ~hosts[ListenerHost(l)]._close_once

\* C17: autoclose() called with at least one open host sets the flag without
\* error; the subnetwork then stays up while a host is open and is shut down,
\* without a second shutdown of the hosts, when its last host is closed
C17_Autoclose ==
    [][/\ (\E h \in hostmap : ~hosts[h]._close_once)
              => (AutocloseRes = "ok" /\ (Autoclose => net'._autoclose))
       /\ (net._autoclose /\ \E h \in hostmap : ~hosts'[h]._close_once) => ~net'._down
       /\ \A h \in hostmap :
              (/\ net._autoclose /\ ~hosts[h]._close_once /\ hosts'[h]._close_once
               /\ \A g \in hostmap : hosts'[g]._close_once)
                  => (net'._down /\ ~net'.withHosts)]_vars

\* the names this subnetwork has announced
Announced(r) == {name \in DOMAIN r.hosts : r.hosts[name] = OsAddr}

\* C18: once the subnet's down has fired new_host never succeeds: no host is
\* added to hostmap, nopenhosts does not change and no name is announced, also
\* while the shutdown has not yet closed the registry
C18_NoNewHostAfterDown ==
    [][net._down =>
           /\ DOMAIN hosts' = DOMAIN hosts
           /\ net'._nopenhosts = net._nopenhosts
           /\ Announced(registry') = Announced(registry)]_vars

\* the names new_host can be asked for
Names == HostNames \cup {NoHostName}

\* C19: a host name is owned by at most one host: new_host(name) for a name
\* created on this subnetwork or announced by another one fails with host
\* already registered and leaves hostmap, nopenhosts and the registry as they
\* were; of two subnetworks that ask for one name exactly one gets it
C19_NameOwnedOnce ==
    [][/\ \A name \in Names :
              name \in DOMAIN registry.hosts =>
                  /\ (net._oslistener = "open" /\ ~registry.closed)
                         => AnnounceRes(name) = "ErrHostDup"
                  /\ RegistryAnnounceRes("peer", name) = "ErrHostDup"
                  /\ (NewHostAnnounce(name) \/ PeerAnnounce(name)) => UNCHANGED vars
                  /\ registry'.hosts[name] = registry.hosts[name]
       /\ \A name \in hostmap \cup newhosts : registry.hosts[name] = OsAddr
       /\ \A name \in DOMAIN hosts' \ DOMAIN hosts :
              /\ name \in newhosts /\ registry.hosts[name] = OsAddr
              /\ net'._nopenhosts = net._nopenhosts + 1]_vars

\* the other subnetwork owns one name, this subnetwork has a host under
\* another name and none under the first
C19_Witness ==
    /\ ~net._down
    /\ \E name \in DOMAIN registry.hosts :
           /\ registry.hosts[name] = PeerOsAddr
           /\ name \notin hostmap \cup newhosts
           /\ AnnounceRes(name) = "ErrHostDup"
    /\ \E name \in hostmap : registry.hosts[name] = OsAddr

\* C20: query(h) is None for a host never announced; after announce(h, x)
\* query(h) is x from every handle of the registry; a later announce(h, y)
\* fails with host already registered and query(h) is still x
C20_Registry ==
    [][\A name \in Names : \A k \in Handles :
           ~PoolClosed(k) =>
               /\ name \notin DOMAIN registry.hosts
                      => (/\ RegistryQuery(k, name) = None
                          /\ RegistryAnnounceRes(k, name) = "ok"
                          /\ \A x \in {OsAddr, PeerOsAddr} :
                                 RegistryAnnounce(k, name, x)[name] = x)
               /\ name \in DOMAIN registry.hosts
                      => (/\ RegistryQuery(k, name) = registry.hosts[name]
                          /\ RegistryQuery(k, name) \in {OsAddr, PeerOsAddr}
                          /\ RegistryAnnounceRes(k, name) = "ErrHostDup"
                          /\ \A y \in {OsAddr, PeerOsAddr} :
                                 RegistryAnnounce(k, name, y) = registry.hosts
                          /\ registry'.hosts[name] = registry.hosts[name])]_vars

\* both subnetworks have announced a host, a third name was never announced,
\* and a dial of this subnetwork has queried the other one's host
C20_Witness ==
    /\ ~registry.closed
    /\ \E name \in DOMAIN registry.hosts : registry.hosts[name] = OsAddr
    /\ \E name \in DOMAIN registry.hosts :
           /\ registry.hosts[name] = PeerOsAddr
           /\ RegistryQuery("self", name) = PeerOsAddr
    /\ NoHostName \notin DOMAIN registry.hosts
    /\ \E d \in DOMAIN netsk : netsk[d].acc = "closed"

\* construction o leaves the read of the network row in this step
ReadsNetwork(o) == registry.opens[o].pc = "network" /\ registry'.opens[o].pc # "network"

\* C21: the first opener of a registry file records its network name and the
\* schema version lonet.1 in meta; every later open with the same name succeeds
\* and leaves meta as it is; every later open with another name fails with
\* network name mismatch and leaves the stored name and the hosts table as they are
C21_RegistryOpen ==
    [][/\ "network" \in DOMAIN registry.meta
              => registry'.meta = registry.meta
       /\ \A o \in DOMAIN registry.opens :
              /\ (ReadsNetwork(o) /\ "network" \in DOMAIN registry.meta)
                     => /\ registry'.hosts = registry.hosts
                        /\ IF registry.opens[o].network = registry.meta["network"]
                           THEN registry'.opens[o].pc \in {"ok", "write"}
                           ELSE registry'.opens[o].pc = "network name mismatch"
              /\ (registry.opens[o].pc = "write" /\ registry'.opens[o].pc = "ok")
                     => registry'.meta = MetaOf(registry.opens[o].network)]_vars

\* close of the pool has returned
PoolCloseReturned == registry.closed /\ registry.poolpc = ""

\* C22: get returns a connection of the free list when there is one and opens a
\* new one otherwise; put on an open pool appends the connection to the free
\* list; after close has returned the free list is empty and stays empty, every
\* connection that was free at close is closed, every get fails with pool
\* closed and every put closes the connection instead of storing it
C22_Pool ==
    [][/\ registry'.opening > registry.opening
              => (~registry.closed /\ registry._connv = <<>>)
       /\ (registry'.used # registry.used /\ registry.used \subseteq registry'.used
               /\ registry'.opening = registry.opening)
              => (/\ ~registry.closed /\ registry._connv # <<>>
                  /\ registry'.used = registry.used \cup {registry._connv[Len(registry._connv)]}
                  /\ registry'._connv = SubSeq(registry._connv, 1, Len(registry._connv) - 1)
                  /\ registry'.dbconns = registry.dbconns)
       /\ \A c \in registry.used :
              c \notin registry'.used
                  => IF ~registry.closed
                     THEN /\ registry'._connv = Append(registry._connv, c)
                          /\ registry'.dbconns = registry.dbconns
                     ELSE /\ registry'._connv = registry._connv
                          /\ registry'.dbconns[c] = "closed"
       /\ (~registry.closed /\ registry'.closed) => registry'.closing = FreeConns
       /\ (registry.poolpc = "closing" /\ registry'.poolpc = "")
              => \A c \in registry.closing : registry'.dbconns[c] = "closed"
       /\ registry.closed => (registry'.closed /\ registry'._connv = <<>>)
       /\ PoolCloseReturned
              => (/\ registry._connv = <<>> /\ registry.closing = {}
                  /\ PoolGetRes = "RuntimeError"
                  /\ PoolGet => UNCHANGED vars
                  /\ registry.opening = 0 => registry'.used \subseteq registry.used)]_vars

\* close has returned; every connection the pool made is closed, those that
\* were in use at close by the put that brought them back
C22_Witness ==
    /\ PoolCloseReturned
    /\ registry.used = {} /\ registry.opening = 0
    /\ Len(registry.dbconns) = MaxConn
    /\ \A c \in DOMAIN registry.dbconns : registry.dbconns[c] = "closed"

\* C24: when the serve task gets an error from the real listener it triggers
\* _vnet_down and the full shutdown runs to completion: the subnet's down is
\* fired, every host is shut down, the real listener and the registry are
\* closed, and the serve task then terminates
C24_EngineFailure ==
    (net.task = "serve" /\ net.pc = "")
        => /\ net._down
           /\ net._oslistener = "closed"
           /\ registry.closed

\* the slot of port p in table v holds a socket
Occupied(v, p) == p < Len(v) /\ PyAt(v, p) # None

\* table v extended with nulls up to port p, socket sk put at p
Installed(v, p, sk) ==
    [i \in 1..(IF p >= Len(v) THEN p + 1 ELSE Len(v)) |->
        IF i = p + 1 THEN sk ELSE IF i <= Len(v) THEN v[i] ELSE None]

\* C25: Host.listen on an explicit port > 0 whose slot is occupied fails with
\* address already in use and leaves socketv and the occupying socket as they
\* are; on a free explicit port it installs a fresh socket with a new listener
\* at exactly that index, the table extended with nulls as needed
C25_ListenExplicitPort ==
    /\ [](\A h \in hostmap : \A laddr \in ListenPortAddrs :
              (/\ ListenAddr(h, laddr).port > 0
               /\ ~hosts[h]._down
               /\ Occupied(Table(h), ListenAddr(h, laddr).port))
                  => /\ ListenRes(h, laddr) = "ErrAddrAlreadyUsed"
                     /\ Extend(Table(h), ListenAddr(h, laddr).port) = Table(h))
    /\ [][\A h \in hostmap : \A laddr \in ListenPortAddrs :
              (/\ ListenAddr(h, laddr).port > 0
               /\ Listen(h, laddr, ListenCalls))
                  => IF Occupied(Table(h), ListenAddr(h, laddr).port)
                     THEN UNCHANGED vars
                     ELSE \E l \in DOMAIN listeners' \ DOMAIN listeners :
                              /\ hosts'[h]._socketv =
                                     Installed(Table(h), ListenAddr(h, laddr).port,
                                               listeners'[l]._socket)
                              /\ listeners'[l]._socket \notin DOMAIN sockets
                              /\ sockets'[listeners'[l]._socket] =
                                     [NewSocket(h, ListenAddr(h, laddr).port)
                                          EXCEPT !._listener = l]]_vars

\* the only call made so far is a listen on port 3 of an empty table: the
\* listener is at index 3 behind three nulls, and a second listen there would
\* fail with address already in use
C25_Witness ==
    \E h \in hostmap :
        /\ Cardinality(DOMAIN listeners) = 1 /\ dials = <<>>
        /\ Len(Table(h)) = 4
        /\ \A p \in 0..2 : PyAt(Table(h), p) = None
        /\ Occupied(Table(h), 3)
        /\ ListenRes(h, addrstr4(<<>>, 3)) = "ErrAddrAlreadyUsed"

\* accept t receives in this step an ack that carries an error
AckErrorStep(t) ==
    /\ accepts[t].pc = "ack"
    /\ handlers[accepts[t].req].pc = "ack"
    /\ handlers[accepts[t].req].ack # "None"
    /\ handlers'[accepts[t].req].pc = "done"
    /\ accepts[t].req \notin purges

\* C27: when the handler reports a failure on ack, accept neither returns nor
\* fails: it nulls the slot it had allocated for the request, creates no conn
\* and waits for the next dial request, which is then accepted on the lowest
\* free port, the same one when no lower slot was freed meanwhile
C27_AckErrorLoops ==
    [][\A t \in DOMAIN accepts :
           AckErrorStep(t) =>
               LET sk == <<"a", accepts[t].req>>
                   h  == sockets[sk]._host
                   p  == sockets[sk]._port
               IN  /\ accepts'[t] = [pc |-> "dialq", l |-> accepts[t].l, req |-> 0]
                   /\ conns' = conns
                   /\ hist'.ret = hist.ret
                   /\ sk \notin DOMAIN sockets'
                   /\ hosts'[h]._socketv = [Table(h) EXCEPT ![p + 1] = None]
                   /\ AllocFreePort(hosts'[h]._socketv) <= p
                   /\ (\A q \in 1..(p - 1) : PyAt(Table(h), q) # None)
                          => AllocFreePort(hosts'[h]._socketv) = p]_vars

\* the first request met an accept of a listener that is still up and was not
\* accepted, the second request was accepted by the same accept call
C27_Witness ==
    \E l \in DOMAIN listeners :
        /\ ~listeners[l]._down
        /\ hist.rdv = <<<<l, 1>>, <<l, 2>>>>
        /\ hist.ret = <<<<l, 2>>>>
        /\ <<"a", 2>> \in DOMAIN conns
        /\ <<"a", 1>> \notin DOMAIN sockets

\* the accepted socket of request d waits for its ack with no conn on it
Unacked(d) == <<"a", d>> \in DOMAIN sockets /\ sockets[<<"a", d>>].conn = None

\* C28: when the listener's down fires after accept has sent Accept and before
\* the ack arrives, accept fails with the down error and leaves a task that
\* receives the ack, closes the request's raw stream if the ack was success,
\* and nulls the slot of the request: neither the slot nor the stream is left
C28_PurgeAfterDown ==
    /\ [][/\ \A t \in DOMAIN accepts :
                 (accepts[t].pc = "ack" /\ accepts'[t].pc = "idle" /\ conns' = conns)
                     => /\ listeners[accepts[t].l]._down
                        /\ purges' = purges \cup {accepts[t].req}
                        /\ <<"a", accepts[t].req>> \in DOMAIN sockets'
                        /\ sockets' = sockets /\ hosts' = hosts /\ netsk' = netsk
          /\ \A d \in purges :
                 /\ Unacked(d)
                 /\ d \notin purges' =>
                        /\ handlers[d].pc = "ack"
                        /\ handlers[d].ack = "None" => netsk'[d].acc = "closed"
                        /\ <<"a", d>> \notin DOMAIN sockets'
                        /\ hosts'[sockets[<<"a", d>>]._host]._socketv =
                               [Table(sockets[<<"a", d>>]._host)
                                    EXCEPT ![sockets[<<"a", d>>]._port + 1] = None]
          /\ \A d \in DOMAIN handlers :
                 Unacked(d) => (d \in purges \/ \E t \in DOMAIN accepts :
                                                   accepts[t].pc = "ack" /\ accepts[t].req = d)]_vars
    /\ \A d \in 1..MaxDial :
           d \in purges ~> (d \notin purges /\ <<"a", d>> \notin DOMAIN sockets)

\* the dial of request 1 got its connected reply, the accept that served it
\* failed on down, and the purge has run: the request met an accept and was
\* not accepted, its stream is closed at the acceptor's end, its slot is gone
C28_Witness ==
    \E l \in DOMAIN listeners :
        /\ listeners[l]._down
        /\ hist.rdv = <<<<l, 1>>>> /\ hist.ret = <<>>
        /\ <<"d", 1>> \in DOMAIN conns
        /\ netsk[1].acc = "closed" /\ netsk[1].dial = "open"
        /\ <<"a", 1>> \notin DOMAIN sockets
        /\ purges = {}
        /\ \A t \in DOMAIN accepts : accepts[t].pc = "idle"

\* C29: no task holds a host's sockmu or the subnet's hostmu while it performs
\* a channel operation, network I/O on a raw stream or the real listener, or
\* waits for another task; in particular the shutdown and close paths close
\* no raw stream under a lock
C29_NoLockAcrossIO == \A e \in hist.locked : e[2] # "conn._netsk.close"

\* the accept calls that hold request d, and whether d was received from a dialq
Holders(d) == {t \in DOMAIN accepts : accepts[t].req = d}
Delivered(d) == \E i \in 1..Len(hist.rdv) : hist.rdv[i][2] = d

\* C30: a dialReq that _vnet_accept offers on the dialq of a listener, in a race
\* with that listener's shutdown, has exactly one outcome: either exactly one
\* accept call receives it and answers it with exactly one Accept, or
\* _vnet_accept fails with connection refused and no accept receives it; it is
\* never received by two accepts and never both received and refused
C30_AcceptRace ==
    /\ [](\A d \in DOMAIN handlers :
            /\ Cardinality({i \in 1..Len(hist.rdv) : hist.rdv[i][2] = d}) <= 1
            /\ Cardinality(Holders(d)) <= 1
            /\ handlers[d].pc = "dialq" => ~Delivered(d) /\ Holders(d) = {}
            /\ handlers[d].res = "ErrConnRefused" => ~Delivered(d) /\ Holders(d) = {}
            /\ d \in hist.refused =>
                   /\ ~Delivered(d) /\ Holders(d) = {}
                   /\ handlers[d].pc = "done"
            /\ handlers[d].pc = "resp" =>
                   /\ Delivered(d)
                   /\ \E t \in Holders(d) : accepts[t].pc = "alloc")
    /\ [][\A d \in DOMAIN handlers :
            /\ handlers[d].pc = "dialq" =>
                   \/ /\ handlers'[d] = handlers[d]
                      /\ \A i \in 1..Len(hist'.rdv) : hist'.rdv[i][2] # d
                      /\ d \notin hist'.refused
                   \/ /\ handlers'[d].pc = "resp"
                      /\ hist'.rdv = Append(hist.rdv, <<handlers[d].l, d>>)
                      /\ hist'.refused = hist.refused
                      /\ \E t \in DOMAIN accepts :
                            /\ accepts[t].pc = "dialq" /\ accepts[t].l = handlers[d].l
                            /\ accepts' = [accepts EXCEPT ![t].pc = "alloc", ![t].req = d]
                   \/ /\ handlers'[d].pc = "done"
                      /\ handlers'[d].res = "ErrConnRefused"
                      /\ listeners[handlers[d].l]._down
                      /\ hist'.rdv = hist.rdv
                      /\ hist'.refused = hist.refused \cup {d}
                      /\ accepts' = accepts
            /\ handlers[d].pc = "resp" /\ handlers'[d] # handlers[d] =>
                   /\ handlers'[d].pc = "ack"
                   /\ handlers'[d].reply.verb = "connected"
                   /\ \E t \in Holders(d) :
                         /\ accepts[t].pc = "alloc"
                         /\ accepts' = [accepts EXCEPT ![t].pc = "ack"]
            /\ handlers[d].pc \in {"ack", "done"} => handlers'[d].pc \in {"ack", "done"}
      ]_vars

\* two tasks were in accept on one listener that was shut down: one request was
\* received by one of them, the other request was refused, and the second task
\* is still in its select
C30_Witness ==
    \E d1, d2 \in DOMAIN handlers, t1, t2 \in DOMAIN accepts :
        /\ d1 # d2 /\ t1 # t2
        /\ hist.rdv = << <<accepts[t2].l, d1>> >>
        /\ Holders(d1) = {t1}
        /\ d2 \in hist.refused
        /\ accepts[t2].pc = "dialq"
        /\ listeners[accepts[t2].l]._down

\* the close that has been performed for the listener of accept call t: its own
\* close, the close of its host, or the completed shutdown of the subnetwork
ClosedFor(t) ==
    LET l == accepts[t].l
    IN  \/ listeners[l]._close_once
        \/ hosts[sockets[listeners[l]._socket]._host]._close_once
        \/ net._down /\ net.pc = ""

\* C23: under fair scheduling every accept that waits for a dial request or for
\* the dialer's ack returns once the close of its listener, of the owning host
\* or of the owning subnetwork (close or _vnet_down) has been performed; no
\* accept stays blocked forever after that
C23_AcceptCancelled ==
    \A t \in 1..MaxAcc :
        (accepts[t].pc # "idle" /\ ClosedFor(t)) ~> (accepts[t].pc = "idle")

\* C26: for every network name, source address and destination address,
\* the empty string and the strings that contain or end in a double quote or a
\* backslash included, the dial line that the quoter produces is parsed by the
\* acceptor into exactly the original three strings, and the reply line is
\* parsed by the initiator into exactly the original network, verb and argument
C26_HandshakeRoundTrip ==
    /\ (Len(netsk) = 1 /\ netsk[1].dial # <<>> /\ handlers # << >>) =>
           handlers[1].m = [ok |-> TRUE, network |-> dials[1].network,
                            src |-> dials[1].src, dst |-> dials[1].dst]
    /\ (Len(netsk) = 1 /\ netsk[1].acc # <<>> /\ dials # << >>) =>
           dials[1].m = [ok |-> TRUE, network |-> handlers[1].network,
                         reply |-> handlers[1].reply, arg |-> handlers[1].arg]

\* C34: with get, put and close of the pool interleaved in any way, a
\* connection is never in the free list while it is checked out and never in
\* the free list twice; once close has returned, no get is in progress and
\* every checked-out connection has been put back, every connection the pool
\* ever opened, one opened by a get that raced with close included, is closed
C34_PoolAccounting ==
    /\ FreeConns \cap registry.used = {}
    /\ \A i, j \in 1..Len(registry._connv) :
           registry._connv[i] = registry._connv[j] => i = j
    /\ (PoolCloseReturned /\ registry.used = {} /\ registry.opening = 0)
           => \A c \in DOMAIN registry.dbconns : registry.dbconns[c] = "closed"

\* close has returned, the connection a racing get opened after it was put
\* back, and so was every other one
C34_Witness ==
    /\ PoolCloseReturned
    /\ registry.used = {} /\ registry.opening = 0
    /\ \E c \in hist.raced, d \in DOMAIN registry.dbconns :
           c # d /\ registry.dbconns[c] = "closed"

\* the operations Host._shutdown makes with locks held that never wait
NonBlockingOps ==
    {"conn._down.close", "conn._netsk.close", "listener._down.close", "host._down.close"}

AckReceivers(d) ==
    {<<"accept", t>> : t \in {u \in DOMAIN accepts : accepts[u].pc = "ack" /\ accepts[u].req = d}}
        \cup (IF d \in purges THEN {<<"purgesk", d>>} ELSE {})

\* C33: for every Accept that accept sends, the handler sends exactly one value
\* on its ack channel and exactly one receiver takes it, the accept call itself
\* or the purge task started on the down path; the handler's ack.send always
\* completes, and neither the handler nor the purge task waits forever
C33_AckOnce ==
    /\ [](\A d \in DOMAIN handlers :
            /\ handlers[d].pc = "ack" => Cardinality(AckReceivers(d)) = 1
            /\ handlers[d].pc # "ack" => AckReceivers(d) = {})
    /\ [][\A d \in DOMAIN handlers :
            /\ (handlers[d].pc # "ack" /\ handlers'[d].pc = "ack") => handlers[d].pc = "resp"
            /\ (handlers[d].pc = "ack" /\ handlers'[d].pc # "ack") =>
                   /\ handlers'[d].pc = "done"
                   /\ \/ /\ d \in purges /\ d \notin purges'
                         /\ accepts' = accepts
                      \/ /\ purges' = purges
                         /\ \E t \in DOMAIN accepts :
                               /\ accepts[t].pc = "ack" /\ accepts[t].req = d
                               /\ accepts'[t].req = 0
      ]_vars
    /\ \A d \in 1..MaxDial :
           (d \in DOMAIN handlers /\ handlers[d].pc = "ack")
               ~> (d \in DOMAIN handlers /\ handlers[d].pc = "done" /\ d \notin purges)

\* the accept has returned on down, and the purge task has received the ack of
\* a reply that was written: the handler has returned, the stream is closed and
\* the dialer has yet to read its reply
C33_Witness ==
    \E d \in DOMAIN handlers :
        /\ handlers[d].pc = "done" /\ handlers[d].res = "ok"
        /\ dials[d].pc = "wait"
        /\ d \notin purges
        /\ <<"a", d>> \notin DOMAIN conns
        /\ netsk[d].acc = "closed"
        /\ \A t \in DOMAIN accepts : accepts[t].pc = "idle"

\* the conn that accept returned for the stream of request d
Owner(d) == <<"a", d>>

\* C32: every real stream handed to loaccept ends either owned by exactly one
\* conn returned from accept or closed: none is closed by the handshake or
\* purge path and also returned inside a conn, and none is left open without
\* an owning conn, whichever of the refusal, protocol error, failed reply
\* write, ack-error and listener-down paths is taken
C32_StreamOwnership ==
    /\ [](\A d \in DOMAIN handlers :
            /\ handlers[d].pc # "done" => Owner(d) \notin DOMAIN conns
            /\ (handlers[d].pc = "done" /\ Owner(d) \notin DOMAIN conns)
                   => netsk[d].acc = "closed"
            /\ (Owner(d) \in DOMAIN conns /\ netsk[d].acc = "closed")
                   => conns[Owner(d)]._down)
    /\ [][\A d \in DOMAIN handlers :
            /\ (Owner(d) \notin DOMAIN conns /\ Owner(d) \in DOMAIN conns') =>
                   /\ handlers[d].pc = "ack" /\ handlers[d].ack = "None"
                   /\ handlers'[d].pc = "done"
                   /\ netsk[d].acc = "open" /\ netsk'[d].acc = "open"
                   /\ d \notin purges
                   /\ \E t \in DOMAIN accepts :
                         accepts[t].req = d /\ accepts'[t] = IdleAccept
            /\ (netsk[d].acc = "open" /\ netsk'[d].acc = "closed"
                    /\ Owner(d) \notin DOMAIN conns) => Owner(d) \notin DOMAIN conns'
      ]_vars

\* one stream was closed by the handler whose reply write failed and is in no
\* conn, another is open and owned by the conn that accept returned
C32_Witness ==
    \E d1, d2 \in DOMAIN handlers :
        /\ handlers[d1].pc = "done" /\ handlers[d1].res = "socket.error"
        /\ netsk[d1].acc = "closed" /\ Owner(d1) \notin DOMAIN conns
        /\ Owner(d2) \in DOMAIN conns /\ netsk[d2].acc = "open"
====
